---- MODULE Spec2Model ----
(***************************************************************************)
(* Model of the Salt state module _states/compose.py (podman formula).     *)
(*                                                                         *)
(* Every lifecycle state function (installed, removed, dead, running,      *)
(* enabled, disabled, lingering_managed, systemd_service_X) is one action  *)
(* that runs the function against the managed composition up to its return *)
(* or up to its first time.sleep(), and records its arguments, the         *)
(* collaborator calls it made (in order) and the returned dictionary.  A   *)
(* call that sleeps in a polling loop is continued by Wake, one iteration  *)
(* of the loop per step; while it sleeps, the calls of other, independent  *)
(* callers run on the same composition (Meanwhile).                        *)
(*                                                                         *)
(* Time is counted in ticks of 1/TicksPerSecond seconds.                   *)
(***************************************************************************)
EXTENDS Integers, Sequences, FiniteSets, TLC

VARIABLES
    world,   \* what the callers manage, as the execution module sees it: the
             \* composition, or a systemd unit, or an account
    call,    \* the state function call that is asleep or has just run (or Idle)
    last,    \* arguments of the previous call if it was a successful installed()
             \* (read by the next call of installed() only)
    lookup,  \* the SubID method call that has just run (or NoLookup)
    owner,   \* the _resolve_owner call that has just run (or NoOwner)
    callers  \* per independent caller: where its running() call stands

vars == <<world, call, last, lookup, owner, callers>>

(***************************************************************************)
(* Bounds of the model.                                                    *)
(***************************************************************************)
MaxFaultAt == 8        \* a fault can be injected into collaborator call 1..MaxFaultAt
MaxSettle == 2         \* an asynchronous effect shows after at most this many polls
MaxProbeDur == 3       \* a collaborator call takes 0 or MaxProbeDur ticks
MaxTimeout == 1        \* caller-supplied timeouts are 0..MaxTimeout seconds
MaxLingerPolls == 102  \* polls of the session marker that are followed
MaxId == 10            \* IDs 0..MaxId are looked up (next to the IDs the maps mention)
MaxOwnerFault == 7     \* a fault can be injected into collaborator call 1..MaxOwnerFault
MaxCallers == 2        \* independent callers of running() on the one composition
MaxHostSize == 4       \* keep-id maps are synthesised for host map sizes 0..MaxHostSize

(***************************************************************************)
(* Program constants.                                                      *)
(***************************************************************************)
TicksPerSecond == 20
PollSleep == 5         \* time.sleep(0.25)
LingerSleep == 2       \* time.sleep(0.1)
DefaultTimeout == 10   \* timeout=10
LingerWindow == 10     \* while start - time.time() < 10

Never == 0 - 1

FaultKinds == {"CommandExecutionError", "SaltInvocationError"}

ShouldNotHappen == "This should not happen"
AssumedRemoved == "Could not find compose file. Assuming it has been removed."

(***************************************************************************)
(* The composition as the collaborators (the compose execution module)     *)
(* report it.                                                              *)
(***************************************************************************)
Worlds ==
    [ file : BOOLEAN,                           \* compose.find_compose_file finds it
      units : {"none", "some", "all"},          \* installed service units
      contentDiff : BOOLEAN,                    \* compose.has_changes
      unitFile : {"missing", "differs", "same"},\* unit file on disk vs generated text
      pods : BOOLEAN,                           \* pod/containers exist (unit generation works)
      running : BOOLEAN,
      enabled : BOOLEAN ]

\* the Apply actions: synchronous ones and those whose effect is awaited by polling
SyncApply == {"install", "install_units", "remove", "enable", "disable",
              "systemctl_enable", "systemctl_disable"}
AsyncApply == {"stop", "start", "restart", "systemctl_start", "systemctl_stop",
               "lingering_enable", "lingering_disable"}
Apply == SyncApply \cup AsyncApply

\* The behaviour of the collaborators during one call is a record of
\*   fault      which collaborator call raises (0: none)
\*   kind       what it raises
\*   falsy      the Apply action that returns a falsy value
\*   effective  a truthy synchronous Apply reached its target
\*   settle     polls answered "not yet" after a truthy Apply
\*   dur        duration of one collaborator call
NoEnv == [fault |-> 0, kind |-> "CommandExecutionError", falsy |-> "none",
          effective |-> TRUE, settle |-> 0, dur |-> 0]

(***************************************************************************)
(* Probes of the execution module.                                         *)
(***************************************************************************)
find_compose_file(w) == w.file
list_installed_units(w) == w.units # "none"
list_missing_units(w) == w.units # "all"
has_changes(w) == w.contentDiff
is_running(w) == w.running
is_enabled(w) == w.enabled
\* The composition is taken as a whole: it runs or it does not, it is enabled
\* or it is not.  For such a composition is_dead and is_disabled answer the
\* opposite of is_running and is_enabled; what the four probes answer when
\* only some of the units run or are enabled is left out, and no property
\* below rests on the pre-check probe and the verify probe agreeing.
is_dead(w) == ~w.running
is_disabled(w) == ~w.enabled

(***************************************************************************)
(* The running call: k.tr is the sequence of collaborator calls made so    *)
(* far, k.now the clock, k.start the value of start_time, k.w the          *)
(* composition, k.env the behaviour of the collaborators during this call. *)
(* k.j is the number of the poll that a call asleep in its loop makes next *)
(* (Never: the call is not in a loop), k.locals the local variables of     *)
(* installed() that its statements after the loop read.                    *)
(***************************************************************************)
Begin(w, env) ==
    [tr |-> <<>>, now |-> 0, start |-> Never, w |-> w, env |-> env, force |-> "unset",
     units_now |-> "unset", j |-> Never, locals |-> <<>>]

\* the next collaborator call raises
Raises(k) == k.env.fault = Len(k.tr) + 1

\* a collaborator is called and returns (or raises) after env.dur ticks
Invoke(k, name) == [k EXCEPT !.tr = Append(@, name), !.now = @ + k.env.dur]

\* compose.install(name, ...) without the force_recreate argument
InvokeInstallUnforced(k, force_recreate) ==
    [Invoke(k, "install") EXCEPT !.force = "False"]

\* compose.install(name, ..., force_recreate=force_recreate, ...)
InvokeInstall(k, force_recreate) ==
    [Invoke(k, "install") EXCEPT !.force = IF force_recreate THEN "True" ELSE "False"]

Falsy(k, name) == k.env.falsy = name

\* the asynchronous effect of a truthy Apply is visible at poll number j (from 0)
Settled(env, j) == env.settle # Never /\ j >= env.settle

\* the polls at which the Apply action of this call acts on the composition: it
\* leaves the target at the first one unless it settles at once, and reaches it
\* at poll number env.settle; every other poll finds the composition as the
\* calls made meanwhile have left it
Lands(env, j) == j = 0 \/ j = env.settle

Seconds(s) == s * TicksPerSecond

\* ret = {"name": name, "changes": ..., "result": ..., "comment": ...}; return ret
Ret(k, result, changes, comment) ==
    [status |-> "returned", result |-> result, changes |-> changes,
     comment |-> comment, k |-> k]

\* time.sleep(...) at the end of an iteration of a polling loop: the call is
\* suspended; poll number j is made when it wakes up
Asleep(k, sleep, j, changes) ==
    [status |-> "sleeping", result |-> "", changes |-> changes, comment |-> "",
     k |-> [k EXCEPT !.now = @ + sleep, !.j = j]]

\* except (CommandExecutionError, SaltInvocationError) as e
FaultMsg(env) ==
    IF env.kind = "CommandExecutionError"
    THEN "collaborator raised CommandExecutionError"
    ELSE "collaborator raised SaltInvocationError"

FaultRet(k, changes) == Ret(k, "False", changes, FaultMsg(k.env))

\* an exception that the except clause does not catch
Uncaught(k, what) ==
    [status |-> "uncaught", result |-> "raised", changes |-> {},
     comment |-> what, k |-> k]

\* __opts__["test"]
OptsTestIgnored(test) == FALSE

OptsTest(test) == test

\* time.time() - start_time > timeout
TimedOutInclusive(now, start, timeout) == now - start >= timeout

TimedOut(now, start, timeout) == now - start > timeout

\* not compose.find_compose_file(name, raise_not_found_error=False)
ComposeFileMissingIgnored(w) == FALSE

ComposeFileMissing(w) == ~find_compose_file(w)

(***************************************************************************)
(* dead(name, ..., timeout=10)                                             *)
(***************************************************************************)
\* a loop that issues compose.stop again before each further probe
DeadPollReapplied(k, j, timeout, changes) ==
    LET ka == IF j > 0 THEN Invoke(k, "stop") ELSE k
        kw == IF Lands(k.env, j) THEN [ka EXCEPT !.w.running = ~Settled(k.env, j)] ELSE ka
        k1 == Invoke(kw, "is_dead")
    IN  IF Raises(kw) THEN FaultRet(k1, changes)
        ELSE IF is_dead(k1.w) THEN Ret(k1, "True", changes, "has been stopped")
        ELSE IF TimedOut(k1.now, k1.start, Seconds(timeout))
             THEN Ret(k1, "False", {}, "Tried to stop the service, but it is still running.")
             ELSE Asleep(k1, PollSleep, j + 1, changes)

\* one iteration (poll number j) of
\* while not compose.is_dead(name): ... time.sleep(0.25)
DeadPoll(k, j, timeout, changes) ==
    LET kw == IF Lands(k.env, j) THEN [k EXCEPT !.w.running = ~Settled(k.env, j)] ELSE k
        k1 == Invoke(kw, "is_dead")
    IN  IF Raises(kw) THEN FaultRet(k1, changes)
        ELSE IF is_dead(k1.w) THEN Ret(k1, "True", changes, "has been stopped")
        ELSE IF TimedOut(k1.now, k1.start, Seconds(timeout))
             THEN Ret(k1, "False", {}, "Tried to stop the service, but it is still running.")
             ELSE Asleep(k1, PollSleep, j + 1, changes)

DeadApply(k, timeout) ==
    LET k1 == Invoke(k, "stop")
    IN  IF Raises(k) THEN FaultRet(k1, {})
        ELSE IF Falsy(k, "stop") THEN Ret(k1, "False", {}, ShouldNotHappen)
        ELSE DeadPoll([k1 EXCEPT !.start = k1.now], 0, timeout, {"stopped"})

dead(k, test, timeout) ==
    LET k1 == Invoke(k, "find_compose_file")
        k2 == Invoke(k1, "list_installed_units")
        k3 == Invoke(k2, "is_running")
    IN  IF Raises(k) THEN FaultRet(k1, {})
        ELSE IF ComposeFileMissing(k1.w) THEN Ret(k1, "True", {}, AssumedRemoved)
        ELSE IF Raises(k1) THEN FaultRet(k2, {})
        ELSE IF ~list_installed_units(k2.w)
             THEN Ret(k2, "True", {}, "Could not find any installed units.")
        ELSE IF Raises(k2) THEN FaultRet(k3, {})
        ELSE IF ~is_running(k3.w) THEN Ret(k3, "True", {}, "already dead")
        ELSE IF OptsTest(test) THEN Ret(k3, "None", {"stopped"}, "set to be stopped")
        ELSE DeadApply(k3, timeout)

(***************************************************************************)
(* running(name, ..., timeout=10)                                          *)
(***************************************************************************)
\* the elapsed time is tested before the answer of the probe is looked at
RunningPollTimeFirst(k, j, timeout, changes) ==
    LET kw == IF Lands(k.env, j) THEN [k EXCEPT !.w.running = Settled(k.env, j)] ELSE k
        k1 == Invoke(kw, "is_running")
    IN  IF Raises(kw) THEN FaultRet(k1, changes)
        ELSE IF TimedOut(k1.now, k1.start, Seconds(timeout))
             THEN Ret(k1, "False", {}, "Tried to start the service, but it is still not running.")
        ELSE IF is_running(k1.w) THEN Ret(k1, "True", changes, "has been started")
             ELSE Asleep(k1, PollSleep, j + 1, changes)

\* one iteration (poll number j) of
\* while not compose.is_running(name): ... time.sleep(0.25)
RunningPoll(k, j, timeout, changes) ==
    LET kw == IF Lands(k.env, j) THEN [k EXCEPT !.w.running = Settled(k.env, j)] ELSE k
        k1 == Invoke(kw, "is_running")
    IN  IF Raises(kw) THEN FaultRet(k1, changes)
        ELSE IF is_running(k1.w) THEN Ret(k1, "True", changes, "has been started")
        ELSE IF TimedOut(k1.now, k1.start, Seconds(timeout))
             THEN Ret(k1, "False", {}, "Tried to start the service, but it is still not running.")
             ELSE Asleep(k1, PollSleep, j + 1, changes)

running(k, test, timeout) ==
    LET k1 == Invoke(k, "is_running")
        k2 == Invoke(k1, "start")
    IN  IF Raises(k) THEN FaultRet(k1, {})
        ELSE IF is_running(k1.w) THEN Ret(k1, "True", {}, "already running")
        ELSE IF OptsTest(test) THEN Ret(k1, "None", {"started"}, "set to be started")
        ELSE IF Raises(k1) THEN FaultRet(k2, {})
        ELSE IF Falsy(k1, "start") THEN Ret(k2, "False", {}, ShouldNotHappen)
        ELSE RunningPoll([k2 EXCEPT !.start = k2.now], 0, timeout, {"started"})

(***************************************************************************)
(* removed(name, volumes=False, ...)                                       *)
(***************************************************************************)
\* k2: effect of a truthy compose.remove
RemovedApply(k) ==
    LET k1 == Invoke(k, "remove")
        k2 == [k1 EXCEPT !.w.units = IF k1.env.effective THEN "none" ELSE "some",
                         !.w.pods = FALSE]
        k3 == Invoke(k2, "list_installed_units")
    IN  IF Raises(k) THEN FaultRet(k1, {})
        ELSE IF Falsy(k, "remove") THEN Ret(k1, "False", {}, ShouldNotHappen)
        ELSE IF Raises(k2) THEN FaultRet(k3, {"removed"})
        ELSE IF list_installed_units(k3.w)
             THEN Ret(k3, "False", {}, "Tried to remove the composition, but some units are still installed.")
             ELSE Ret(k3, "True", {"removed"}, "has been removed")

removed(k, test) ==
    LET k1 == Invoke(k, "find_compose_file")
        k2 == Invoke(k1, "list_installed_units")
    IN  IF Raises(k) THEN FaultRet(k1, {})
        ELSE IF ComposeFileMissing(k1.w) THEN Ret(k1, "True", {}, AssumedRemoved)
        ELSE IF Raises(k1) THEN FaultRet(k2, {})
        ELSE IF ~list_installed_units(k2.w) THEN Ret(k2, "True", {}, "already absent")
        ELSE IF OptsTest(test) THEN Ret(k2, "None", {"removed"}, "set to be removed")
        ELSE RemovedApply(k2)

(***************************************************************************)
(* disabled(name, ...)                                                     *)
(***************************************************************************)
DisabledApply(k) ==
    LET k1 == Invoke(k, "disable")
        k2 == [k1 EXCEPT !.w.enabled = ~k1.env.effective]
        k3 == Invoke(k2, "is_disabled")
    IN  IF Raises(k) THEN FaultRet(k1, {})
        ELSE IF Falsy(k, "disable") THEN Ret(k1, "False", {}, ShouldNotHappen)
        ELSE IF Raises(k2) THEN FaultRet(k3, {"disabled"})
        ELSE IF ~is_disabled(k3.w)
             THEN Ret(k3, "False", {}, "Tried to disable the service, but it is still reported as enabled.")
             ELSE Ret(k3, "True", {"disabled"}, "has been disabled")

disabled(k, test) ==
    LET k1 == Invoke(k, "find_compose_file")
        k2 == Invoke(k1, "list_installed_units")
        k3 == Invoke(k2, "is_enabled")
    IN  IF Raises(k) THEN FaultRet(k1, {})
        ELSE IF ComposeFileMissing(k1.w) THEN Ret(k1, "True", {}, AssumedRemoved)
        ELSE IF Raises(k1) THEN FaultRet(k2, {})
        ELSE IF ~list_installed_units(k2.w)
             THEN Ret(k2, "True", {}, "Could not find any installed units.")
        ELSE IF Raises(k2) THEN FaultRet(k3, {})
        ELSE IF ~is_enabled(k3.w) THEN Ret(k3, "True", {}, "already disabled")
        ELSE IF OptsTest(test) THEN Ret(k3, "None", {"disabled"}, "set to be disabled")
        ELSE DisabledApply(k3)

(***************************************************************************)
(* enabled(name, ...)                                                      *)
(***************************************************************************)
EnabledApply(k) ==
    LET k1 == Invoke(k, "enable")
        k2 == [k1 EXCEPT !.w.enabled = k1.env.effective]
        k3 == Invoke(k2, "is_enabled")
    IN  IF Raises(k) THEN FaultRet(k1, {})
        ELSE IF Falsy(k, "enable") THEN Ret(k1, "False", {}, ShouldNotHappen)
        ELSE IF Raises(k2) THEN FaultRet(k3, {"enabled"})
        ELSE IF ~is_enabled(k3.w)
             THEN Ret(k3, "False", {}, "Tried to enable the service, but it is reported as disabled.")
             ELSE Ret(k3, "True", {"enabled"}, "has been enabled")

enabled(k, test) ==
    LET k1 == Invoke(k, "is_enabled")
    IN  IF Raises(k) THEN FaultRet(k1, {})
        ELSE IF is_enabled(k1.w) THEN Ret(k1, "True", {}, "already enabled")
        ELSE IF OptsTest(test) THEN Ret(k1, "None", {"enabled"}, "set to be enabled")
        ELSE EnabledApply(k1)

(***************************************************************************)
(* installed(name, update=True, ..., force_recreate=False, ...)            *)
(***************************************************************************)
\* effect of a truthy compose.install
InstallEffect(w, env) ==
    [w EXCEPT !.units = IF env.effective THEN "all" ELSE "some",
              !.contentDiff = FALSE, !.unitFile = "same", !.pods = TRUE]

\* the answer of compose.list_missing_units(...) is not read
InstalledPostCheckSkipped(k, changes, comment) ==
    LET k1 == Invoke(k, "list_missing_units")
    IN  IF Raises(k) THEN FaultRet(k1, changes) ELSE Ret(k1, "True", changes, comment)

\* if compose.list_missing_units(...): ret["result"] = False
InstalledPostCheck(k, changes, comment) ==
    LET k1 == Invoke(k, "list_missing_units")
    IN  IF Raises(k) THEN FaultRet(k1, changes)
        ELSE IF list_missing_units(k1.w)
             THEN Ret(k1, "False", changes,
                      "Tried to install the composition, but there are still some missing components.")
             ELSE Ret(k1, "True", changes, comment)

\* compose.install_units(...) without generate_only: it returns the mapping of
\* unit names to unit texts, which is not read; k2: its effect
InstalledUnitsOnly(k) ==
    LET k1 == [Invoke(k, "install_units") EXCEPT !.units_now = "False"]
        k2 == [k1 EXCEPT !.w.units = IF k1.env.effective THEN "all" ELSE "some",
                         !.w.unitFile = "same"]
    IN  IF Raises(k) THEN FaultRet(k1, {})
        ELSE InstalledPostCheck(k2, {"updated"}, "Unit files have been updated.")

\* elif compose.install(...): ... else: raise CommandExecutionError
InstalledFull(k, is_installed) ==
    LET k1 == InvokeInstall(k, FALSE)
        k2 == [k1 EXCEPT !.w = InstallEffect(k1.w, k1.env)]
        key == IF is_installed THEN "updated" ELSE "installed"
    IN  IF Raises(k) THEN FaultRet(k1, {})
        ELSE IF Falsy(k, "install") THEN Ret(k1, "False", {}, ShouldNotHappen)
        ELSE InstalledPostCheck(k2, {key}, "Composition has been installed or updated.")

\* removed(name, volumes=False, ...) then dead(name, ...)
TeardownSwapped(k, test) ==
    IF k.j = Never THEN dead(removed(k, test).k, test, DefaultTimeout)
    ELSE DeadPoll(k, k.j, DefaultTimeout, {"stopped"})

\* dead(name, ...) then removed(name, volumes=False, ...); both results are
\* dropped.  A call asleep in the loop of dead() (k.j is set) goes on with
\* that loop.
Teardown(k, test) ==
    LET d == IF k.j = Never THEN dead(k, test, DefaultTimeout)
             ELSE DeadPoll(k, k.j, DefaultTimeout, {"stopped"})
    IN  IF d.status = "sleeping" THEN d ELSE removed([d.k EXCEPT !.j = Never], test)

\* if units_changed: ... elif ... (the unit text difference is looked at first)
InstalledApplyUnitsFirst(k, is_installed, has, units_changed, test) ==
    LET td == IF has /\ is_installed THEN Teardown(k, test) ELSE Ret(k, "", {}, "")
        kt == [td.k EXCEPT !.j = Never]
    IN  IF td.status = "sleeping"
        THEN [td EXCEPT !.changes = {}, !.k.locals = <<is_installed, has, units_changed>>]
        ELSE IF units_changed THEN InstalledUnitsOnly(kt)
        ELSE InstalledFull(kt, is_installed)

\* if is_installed: dead(); removed() (torn down whatever has_changes says)
InstalledApplyTornDown(k, is_installed, has, units_changed, test) ==
    LET td == IF is_installed THEN Teardown(k, test) ELSE Ret(k, "", {}, "")
        kt == [td.k EXCEPT !.j = Never]
    IN  IF td.status = "sleeping"
        THEN [td EXCEPT !.changes = {}, !.k.locals = <<is_installed, has, units_changed>>]
        ELSE IF units_changed /\ ~has THEN InstalledUnitsOnly(kt)
        ELSE InstalledFull(kt, is_installed)

\* if has_changes and is_installed: ...; if units_changed and not has_changes: ... elif ...
\* (while installed() is suspended in the loop of dead() its locals are kept)
InstalledApply(k, is_installed, has, units_changed, test) ==
    LET td == IF has /\ is_installed THEN Teardown(k, test) ELSE Ret(k, "", {}, "")
        kt == [td.k EXCEPT !.j = Never]
    IN  IF td.status = "sleeping"
        THEN [td EXCEPT !.changes = {}, !.k.locals = <<is_installed, has, units_changed>>]
        ELSE IF units_changed /\ ~has THEN InstalledUnitsOnly(kt)
        ELSE InstalledFull(kt, is_installed)

\* if is_installed and units_changed and not has_changes (a slip in the condition)
InSyncSlip(is_installed, has, units_changed) == is_installed /\ ~has /\ units_changed

\* if is_installed and not has_changes and not units_changed
InSync(is_installed, has, units_changed) == is_installed /\ ~has /\ ~units_changed

\* from the in-sync check to the end, once has_changes and units_changed are bound
InstalledDecide(k, is_installed, has, units_changed, test) ==
    IF InSync(is_installed, has, units_changed)
    THEN Ret(k, "True", {}, "already installed and in sync with the definitions")
    ELSE IF OptsTest(test)
         THEN Ret(k, "None", {IF is_installed THEN "updated" ELSE "installed"}, "set to be")
         ELSE InstalledApply(k, is_installed, has, units_changed, test)

\* for unit_name, unit_definitions in wanted_units.items(): ...
InstalledUnitFiles(k, is_installed, has, test) ==
    LET k1 == Invoke(k, "file.file_exists")
        k2 == Invoke(k1, "file.read")
    IN  IF ~k.w.pods THEN InstalledDecide(k, is_installed, has, FALSE, test)
        ELSE IF Raises(k) THEN FaultRet(k1, {})
        ELSE IF k1.w.unitFile = "missing"
             THEN InstalledDecide(k1, is_installed, has, TRUE, test)
        ELSE IF Raises(k1) THEN FaultRet(k2, {})
        ELSE InstalledDecide(k2, is_installed, has, k2.w.unitFile = "differs", test)

\* if is_installed and update (the flag read the wrong way round)
SkipUpdateInverted(is_installed, update) == is_installed /\ update

\* if is_installed and not update
SkipUpdate(is_installed, update) == is_installed /\ ~update

\* the probes of the "if not force_recreate" branch
InstalledProbe(k, update, test) ==
    LET k1 == Invoke(k, "list_installed_units")
        is_installed == list_installed_units(k1.w)
        k2 == Invoke(k1, "has_changes")
        has == has_changes(k2.w)
        k3 == Invoke(k2, "install_units(generate_only)")
        k4 == Invoke(k3, "service_dir")
    IN  IF Raises(k) THEN FaultRet(k1, {})
        ELSE IF SkipUpdate(is_installed, update)
             THEN Ret(k1, "True", {}, "already installed")
        ELSE IF Raises(k1) THEN FaultRet(k2, {})
        ELSE IF Raises(k2) THEN FaultRet(k3, {})
        ELSE IF Raises(k3) THEN FaultRet(k4, {})
        ELSE InstalledUnitFiles(k4, is_installed, has, test)

\* else: is_installed = True  (has_changes and units_changed stay unbound)
InstalledForced(k, test) ==
    IF OptsTest(test) THEN Ret(k, "None", {"updated"}, "set to be")
    ELSE Uncaught(k, "UnboundLocalError: has_changes")

installed(k, update, force_recreate, test) ==
    IF force_recreate THEN InstalledForced(k, test) ELSE InstalledProbe(k, update, test)

(***************************************************************************)
(* systemd_service_enabled / running / disabled / dead (name, user=None)   *)
(* k.w is the unit: [running, enabled].                                    *)
(***************************************************************************)
Units == [running : BOOLEAN, enabled : BOOLEAN]

systemctl_is_running(u) == u.running
systemctl_is_enabled(u) == u.enabled

systemd_service_enabled(k, test) ==
    LET k1 == Invoke(k, "systemctl_is_enabled")
        k2 == Invoke(k1, "systemctl_enable")
        k3 == [k2 EXCEPT !.w.enabled = k2.env.effective]
        k4 == Invoke(k3, "systemctl_is_enabled")
    IN  IF Raises(k) THEN FaultRet(k1, {})
        ELSE IF systemctl_is_enabled(k1.w) THEN Ret(k1, "True", {}, "already enabled")
        ELSE IF OptsTest(test) THEN Ret(k1, "None", {"enabled"}, "set to be enabled")
        ELSE IF Raises(k1) THEN FaultRet(k2, {})
        ELSE IF Falsy(k1, "systemctl_enable") THEN Ret(k2, "False", {}, ShouldNotHappen)
        ELSE IF Raises(k3) THEN FaultRet(k4, {"enabled"})
        ELSE IF ~systemctl_is_enabled(k4.w)
             THEN Ret(k4, "False", {}, "Tried to enable the service, but it is reported as disabled.")
             ELSE Ret(k4, "True", {"enabled"}, "has been enabled")

systemd_service_disabled(k, test) ==
    LET k1 == Invoke(k, "systemctl_is_enabled")
        k2 == Invoke(k1, "systemctl_disable")
        k3 == [k2 EXCEPT !.w.enabled = ~k2.env.effective]
        k4 == Invoke(k3, "systemctl_is_enabled")
    IN  IF Raises(k) THEN FaultRet(k1, {})
        ELSE IF ~systemctl_is_enabled(k1.w) THEN Ret(k1, "True", {}, "already disabled")
        ELSE IF OptsTest(test) THEN Ret(k1, "None", {"disabled"}, "set to be disabled")
        ELSE IF Raises(k1) THEN FaultRet(k2, {})
        ELSE IF Falsy(k1, "systemctl_disable") THEN Ret(k2, "False", {}, ShouldNotHappen)
        ELSE IF Raises(k3) THEN FaultRet(k4, {"disabled"})
        ELSE IF systemctl_is_enabled(k4.w)
             THEN Ret(k4, "False", {}, "Tried to disable the service, but it is reported as enabled.")
             ELSE Ret(k4, "True", {"disabled"}, "has been disabled")

\* one iteration (poll number j) of
\* while [not] compose.systemctl_is_running(name): ... time.sleep(0.25)
SystemdPoll(k, j, timeout, target, changes) ==
    LET kw == IF Lands(k.env, j)
              THEN [k EXCEPT !.w.running = IF Settled(k.env, j) THEN target ELSE ~target]
              ELSE k
        k1 == Invoke(kw, "systemctl_is_running")
    IN  IF Raises(kw) THEN FaultRet(k1, changes)
        ELSE IF systemctl_is_running(k1.w) = target
             THEN Ret(k1, "True", changes, "has been started or stopped")
        ELSE IF TimedOut(k1.now, k1.start, Seconds(timeout))
             THEN Ret(k1, "False", {}, "Tried to start or stop the service, but it did not change.")
             ELSE Asleep(k1, PollSleep, j + 1, changes)

systemd_service_running(k, test, timeout) ==
    LET k1 == Invoke(k, "systemctl_is_running")
        k2 == Invoke(k1, "systemctl_start")
    IN  IF Raises(k) THEN FaultRet(k1, {})
        ELSE IF systemctl_is_running(k1.w) THEN Ret(k1, "True", {}, "already running")
        ELSE IF OptsTest(test) THEN Ret(k1, "None", {"started"}, "set to be started")
        ELSE IF Raises(k1) THEN FaultRet(k2, {})
        ELSE IF Falsy(k1, "systemctl_start") THEN Ret(k2, "False", {}, ShouldNotHappen)
        ELSE SystemdPoll([k2 EXCEPT !.start = k2.now], 0, timeout, TRUE, {"started"})

systemd_service_dead(k, test, timeout) ==
    LET k1 == Invoke(k, "systemctl_is_running")
        k2 == Invoke(k1, "systemctl_stop")
    IN  IF Raises(k) THEN FaultRet(k1, {})
        ELSE IF ~systemctl_is_running(k1.w) THEN Ret(k1, "True", {}, "already dead")
        ELSE IF OptsTest(test) THEN Ret(k1, "None", {"stopped"}, "set to be stopped")
        ELSE IF Raises(k1) THEN FaultRet(k2, {})
        ELSE IF Falsy(k1, "systemctl_stop") THEN Ret(k2, "False", {}, ShouldNotHappen)
        ELSE SystemdPoll([k2 EXCEPT !.start = k2.now], 0, timeout, FALSE, {"stopped"})

(***************************************************************************)
(* lingering_managed(name, enable)                                         *)
(* k.w is the account: [exists, lingering, marker], marker being the       *)
(* per-user session bus /run/user/<uid>/bus.                               *)
(***************************************************************************)
Accounts == [exists : BOOLEAN, lingering : BOOLEAN, marker : BOOLEAN]

\* while start - time.time() < 10
LingerWindowOpen(start, now) == start - now < Seconds(LingerWindow)

\* one iteration (poll number j) of
\* while ...: if dbus_session_bus.exists() is enable: ...; time.sleep(0.1)
\* A call that is still in its loop after MaxLingerPolls polls is followed no
\* further (status "looping").
LingerPoll(k, j, enable, applied, result, changes) ==
    LET kw == IF applied /\ Settled(k.env, j) THEN [k EXCEPT !.w.marker = enable] ELSE k
        k1 == Invoke(kw, "bus.exists")
        closed == "No errors encountered, but the reported state does not match the expected"
    IN  IF ~LingerWindowOpen(k.start, k.now) THEN Ret(k, "False", changes, closed)
        ELSE IF k1.w.marker = enable
             THEN Ret(k1, result, {"lingering"}, "Lingering has been enabled or disabled.")
        ELSE IF j >= MaxLingerPolls
             THEN [status |-> "looping", result |-> result, changes |-> changes,
                   comment |-> "", k |-> k1]
        ELSE Asleep(k1, LingerSleep, j + 1, changes)

\* compose.lingering_enabled(name) is not enable (the comparison inverted)
LingeringAlreadyInverted(w, enable) == w.lingering # enable

\* compose.lingering_enabled(name) is enable
LingeringAlready(w, enable) == w.lingering = enable

\* user.info(name) is taken to report every account
UserMissingNever(w) == FALSE

\* if not user_info
UserMissing(w) == ~w.exists

lingering_managed(k, enable, test) ==
    LET k1 == Invoke(k, "user.info")
        k2 == Invoke(k1, "lingering_enabled")
        func == IF enable THEN "lingering_enable" ELSE "lingering_disable"
        k3 == Invoke(k2, func)
        k4 == [k3 EXCEPT !.w.lingering = enable]
    IN  IF Raises(k) THEN FaultRet(k1, {})
        ELSE IF UserMissing(k1.w)
             THEN IF OptsTest(test)
                  THEN Ret(k1, "None", {}, "User does not exist. If it is created before this, this check will pass.")
                  ELSE Ret(k1, "False", {}, "User does not exist.")
        ELSE IF Raises(k1) THEN FaultRet(k2, {})
        ELSE IF LingeringAlready(k2.w, enable) THEN Ret(k2, "True", {}, "already")
        ELSE IF OptsTest(test)
             THEN LingerPoll([k2 EXCEPT !.start = k2.now], 0, enable, FALSE, "None", {"lingering"})
        ELSE IF Raises(k2) THEN FaultRet(k3, {})
        ELSE IF Falsy(k2, func) THEN Ret(k3, "False", {}, ShouldNotHappen)
        ELSE LingerPoll([k4 EXCEPT !.start = k4.now], 0, enable, TRUE, "True", {})

(***************************************************************************)
(* mod_watch(name, sfun=None, **kwargs)                                    *)
(***************************************************************************)
\* what check_func reports at poll j when func was (not) truthy
WatchProgress(k, j, target, applied) ==
    IF ~applied \/ ~Lands(k.env, j) THEN k
    ELSE IF target = "dead" THEN [k EXCEPT !.w.running = ~Settled(k.env, j)]
    ELSE [k EXCEPT !.w.running = Settled(k.env, j)]

\* ret["comment"] = f"{target} was {verb}{pp_suffix}."; ret["changes"][...] = name
WatchDone(k, key) == Ret(k, "True", {key}, "was stopped, started, restarted or recreated")

\* one iteration (poll number j) of
\* while not check_func(name, **status_kwargs): ... time.sleep(0.25)
\* (ret["changes"] is empty until the loop is left)
WatchPoll(k, j, timeout, target, applied, key) ==
    LET kw == WatchProgress(k, j, target, applied)
        probe == IF target = "dead" THEN "is_dead" ELSE "is_running"
        k1 == Invoke(kw, probe)
        reached == IF target = "dead" THEN is_dead(k1.w) ELSE is_running(k1.w)
    IN  IF Raises(kw) THEN FaultRet(k1, {})
        ELSE IF reached THEN WatchDone(k1, key)
        ELSE IF TimedOut(k1.now, k1.start, Seconds(timeout))
             THEN Ret(k1, "False", {}, "Tried to change the service, but it is still not dead or running.")
             ELSE Asleep(k1, PollSleep, j + 1, {})

\* if __opts__["test"]: (the dry-run return of the dispatcher)
WatchDryRunSkipped(test) == FALSE

WatchDryRun(test) == OptsTest(test)

\* if __opts__["test"]: ...; func(name, **func_kwargs); if check_func: ...
WatchApply(k, test, timeout, func, target, key) ==
    LET k1 == IF func = "install" THEN InvokeInstall(k, TRUE)
              ELSE Invoke(k, func)
        applied == ~Falsy(k, func)
        k2 == IF func = "install" /\ applied
              THEN [k1 EXCEPT !.w = InstallEffect(k1.w, k1.env)] ELSE k1
    IN  IF WatchDryRun(test) THEN Ret(k, "None", {key}, "is set to be")
        ELSE IF Raises(k) THEN FaultRet(k1, {})
        ELSE IF target = "none" THEN WatchDone(k2, key)
        ELSE WatchPoll([k2 EXCEPT !.start = k2.now], 0, timeout, target, applied, key)

\* elif "installed" == sfun: stop the service before recreating
WatchInstalled(k, test, timeout) ==
    LET k1 == Invoke(k, "is_running")
        k2 == Invoke(k1, "stop")
        k3 == IF Falsy(k1, "stop") THEN k2
              ELSE [k2 EXCEPT !.w.running = ~Settled(k2.env, 0)]
    IN  IF OptsTest(test) THEN WatchApply(k, test, timeout, "install", "none", "recreated")
        ELSE IF Raises(k) THEN FaultRet(k1, {})
        ELSE IF ~is_running(k1.w)
             THEN WatchApply(k1, test, timeout, "install", "none", "recreated")
        ELSE IF Raises(k1) THEN FaultRet(k2, {})
        ELSE WatchApply(k3, test, timeout, "install", "none", "recreated")

\* ret["comment"] = f"Unable to trigger watch for compose.{sfun}"
WatchUnable(sfun) ==
    IF sfun = "enabled" THEN "Unable to trigger watch for compose.enabled"
    ELSE "Unable to trigger watch for compose.None"

\* if sfun in ["dead", "running"]
IsStatusTargetLoose(sfun) == sfun # "installed"

IsStatusTarget(sfun) == sfun \in {"dead", "running"}

\* "dead" == sfun: not compose.is_running(name) -> "Service is already stopped."
WatchAlreadyStoppedNever(w) == FALSE

WatchAlreadyStopped(w) == ~is_running(w)

\* "running" == sfun: verb = "restart" if compose.is_running(name) else "start"
WatchVerbStart(w) == "start"

WatchVerb(w) == IF is_running(w) THEN "restart" ELSE "start"

mod_watch(k, sfun, test, timeout) ==
    LET k1 == Invoke(k, "is_running")
        verb == WatchVerb(k1.w)
    IN  IF IsStatusTarget(sfun)
        THEN IF Raises(k) THEN FaultRet(k1, {})
             ELSE IF sfun = "dead"
                  THEN IF WatchAlreadyStopped(k1.w)
                       THEN Ret(k1, "True", {}, "Service is already stopped.")
                       ELSE WatchApply(k1, test, timeout, "stop", "dead", "stopped")
             ELSE WatchApply(k1, test, timeout, verb, "running",
                             IF verb = "restart" THEN "restarted" ELSE "started")
        ELSE IF sfun = "installed" THEN WatchInstalled(k, test, timeout)
        ELSE Ret(k, "False", {}, WatchUnable(sfun))

(***************************************************************************)
(* Text.  A Python str is a sequence of one-character strings, so that     *)
(* formatting (f"{n}"), int(), split() and strip() are computed.           *)
(***************************************************************************)
Digit == <<"0", "1", "2", "3", "4", "5", "6", "7", "8", "9">>

\* f"{n}"
Decimal(n) ==
    LET RECURSIVE DecimalNat(_)
        DecimalNat(m) ==
            IF m < 10 THEN <<Digit[m + 1]>>
            ELSE DecimalNat(m \div 10) \o <<Digit[(m % 10) + 1]>>
    IN  IF n < 0 THEN <<"-">> \o DecimalNat(0 - n) ELSE DecimalNat(n)

IsSpace(c) == c \in {" ", "\t", "\n"}

\* str.strip()
Strip(s) ==
    LET RECURSIVE LStrip(_)
        LStrip(t) == IF t # <<>> /\ IsSpace(Head(t)) THEN LStrip(Tail(t)) ELSE t
        RECURSIVE RStrip(_)
        RStrip(t) ==
            IF t # <<>> /\ IsSpace(t[Len(t)]) THEN RStrip(SubSeq(t, 1, Len(t) - 1)) ELSE t
    IN  RStrip(LStrip(s))

\* str.startswith(prefix)
StartsWith(s, prefix) == Len(s) >= Len(prefix) /\ SubSeq(s, 1, Len(prefix)) = prefix

\* s[n:]
DropChars(s, n) == SubSeq(s, n + 1, Len(s))

RECURSIVE Split(_, _)
\* str.split(sep) for a one-character separator
Split(s, sep) ==
    IF \A i \in 1..Len(s) : s[i] # sep THEN <<s>>
    ELSE LET i == CHOOSE j \in 1..Len(s) :
                     s[j] = sep /\ \A h \in 1..(j - 1) : s[h] # sep
         IN  <<SubSeq(s, 1, i - 1)>> \o Split(DropChars(s, i), sep)

\* [line for line in s.splitlines() if line]
Lines(s) ==
    LET RECURSIVE NonEmpty(_)
        NonEmpty(lines) ==
            IF lines = <<>> THEN <<>>
            ELSE IF Head(lines) = <<>> THEN NonEmpty(Tail(lines))
            ELSE <<Head(lines)>> \o NonEmpty(Tail(lines))
    IN  NonEmpty(Split(s, "\n"))

RECURSIVE Fields(_)
\* re.split(r"[\s]+", s) on a stripped string
Fields(s) ==
    IF \A i \in 1..Len(s) : ~IsSpace(s[i]) THEN <<s>>
    ELSE LET i == CHOOSE j \in 1..Len(s) :
                     IsSpace(s[j]) /\ \A h \in 1..(j - 1) : ~IsSpace(s[h])
         IN  <<SubSeq(s, 1, i - 1)>> \o Fields(Strip(DropChars(s, i)))

\* int(s) succeeds: optional blanks around an optional sign and decimal digits
IsIntText(s) ==
    LET t == Strip(s)
        body == IF t # <<>> /\ Head(t) \in {"-", "+"} THEN Tail(t) ELSE t
    IN  body # <<>> /\ \A i \in 1..Len(body) : \E d \in 1..10 : Digit[d] = body[i]

\* int(s)
IntOf(s) ==
    LET t == Strip(s)
        RECURSIVE NatOf(_, _)
        NatOf(u, acc) ==
            IF u = <<>> THEN acc
            ELSE NatOf(Tail(u), acc * 10 + (CHOOSE d \in 1..10 : Digit[d] = Head(u)) - 1)
    IN  IF Head(t) = "-" THEN 0 - NatOf(Tail(t), 0)
        ELSE IF Head(t) = "+" THEN NatOf(Tail(t), 0)
        ELSE NatOf(t, 0)

(***************************************************************************)
(* class SubID: submap is a tuple of (pid_start, parent_start, cnt).       *)
(***************************************************************************)
\* a method returns a value or raises
Value(v) == [raised |-> "", value |-> v]
Raise(what) == [raised |-> what, value |-> 0]

\* tuple(map(int, parts)) of one line
IntTuple(parts) == [i \in 1..Len(parts) |-> IntOf(parts[i])]

\* int() succeeds on every part of every line
AllInts2(rows) == \A i \in 1..Len(rows) : \A j \in 1..Len(rows[i]) : IsIntText(rows[i][j])

\* SubID.from_inspect(submap): tuple(tuple(map(int, line.split(":"))) for line in submap)
InspectRows(entries) == [i \in 1..Len(entries) |-> Split(entries[i], ":")]

from_inspect(entries) ==
    LET rows == InspectRows(entries) IN [i \in 1..Len(rows) |-> IntTuple(rows[i])]

\* SubID.from_str(submap): one tuple per non-empty line, split on white space
StrRows(text) ==
    LET lines == Lines(text) IN [i \in 1..Len(lines) |-> Fields(Strip(lines[i]))]

from_str(text) ==
    LET rows == StrRows(text) IN [i \in 1..Len(rows) |-> IntTuple(rows[i])]

\* fid in range(pid_start, pid_start + cnt), the end included by mistake
InRangeInclusive(fid, lo, hi) == lo <= fid /\ fid <= hi

\* fid in range(pid_start, pid_start + cnt)
InRange(fid, lo, hi) == lo <= fid /\ fid < hi

RECURSIVE FindFrom(_, _, _)
\* for pid_start, parent_start, cnt in self.submap: ...
FindFrom(submap, i, fid) ==
    IF i > Len(submap) THEN Raise("SaltInvocationError")
    ELSE IF Len(submap[i]) # 3 THEN Raise("ValueError")
    ELSE IF InRange(fid, submap[i][1], submap[i][1] + submap[i][3])
         THEN Value(submap[i][2] + fid - submap[i][1])
         ELSE FindFrom(submap, i + 1, fid)

\* an ID outside every range is returned as it is
FindOrIdentity(submap, fid) ==
    IF submap = <<>> \/ FindFrom(submap, 1, fid).raised = "SaltInvocationError"
    THEN Value(fid)
    ELSE FindFrom(submap, 1, fid)

\* SubID.find_parent_id(self, fid)
find_parent_id(submap, fid) ==
    IF submap = <<>> THEN Value(fid) ELSE FindFrom(submap, 1, fid)

\* SubID.size(self)
size(submap) ==
    LET RECURSIVE LargestFrom(_, _)
        LargestFrom(i, largest) ==
            IF i > Len(submap) THEN Value(largest)
            ELSE IF Len(submap[i]) # 3 THEN Raise("ValueError")
            ELSE LargestFrom(i + 1, IF submap[i][3] > largest THEN submap[i][3]
                                    ELSE largest)
    IN  LargestFrom(1, 0)

(***************************************************************************)
(* _resolve_owner(project, container_ref, fail_kwargs, kwargs)             *)
(*                                                                         *)
(* p is what the collaborators report about the project; a value of kwargs *)
(* is absent, a str or an int; tr is the sequence of collaborator calls.   *)
(***************************************************************************)
Absent == [kind |-> "absent", s |-> <<>>, n |-> 0]
StrVal(s) == [kind |-> "str", s |-> s, n |-> 0]
IntVal(n) == [kind |-> "int", s |-> <<>>, n |-> n]

NoMaps == [UidMap |-> <<>>, GidMap |-> <<>>]
NoHostMaps == [cached |-> FALSE, uid |-> <<>>, gid |-> <<>>]

OwnerReturned(tr, kwargs) ==
    [status |-> "returned", raised |-> "", user |-> kwargs.user, group |-> kwargs.group,
     tr |-> tr]

OwnerRaised(tr, what) ==
    [status |-> "raised", raised |-> what, user |-> Absent, group |-> Absent, tr |-> tr]

\* the next collaborator call raises
OwnerRaises(p, tr) == p.fault = Len(tr) + 1

\* check_fail(msg) without the fail_kwargs test: it always raises
CheckFailRaises(tr, fail_kwargs, kwargs) == OwnerRaised(tr, "CommandExecutionError")

\* check_fail(msg): raise, or kwargs.update(fail_kwargs) and return kwargs
check_fail(tr, fail_kwargs, kwargs) ==
    IF fail_kwargs.none THEN OwnerRaised(tr, "CommandExecutionError")
    ELSE OwnerReturned(tr,
             [user |-> IF fail_kwargs.user.kind # "absent" THEN fail_kwargs.user
                       ELSE kwargs.user,
              group |-> IF fail_kwargs.group.kind # "absent" THEN fail_kwargs.group
                        ELSE kwargs.group])

\* if kwargs[ent] == "root": 0; elif isinstance(kwargs[ent], str): raise; else kwargs[ent]
RootIdOne == Value(1)

RootId == Value(0)

WantedId(v) ==
    IF v.kind = "str" /\ v.s = <<"r", "o", "o", "t">> THEN RootId
    ELSE IF v.kind = "str" THEN Raise("SaltInvocationError")
    ELSE Value(v.n)

\* final_id = id_map.find_parent_id(int_id_map.find_parent_id(wanted_id)), stages swapped
TwoStageSwapped(int_id_map, id_map, wanted_id) ==
    LET eff_id == find_parent_id(id_map, wanted_id)
    IN  IF eff_id.raised # "" THEN eff_id ELSE find_parent_id(int_id_map, eff_id.value)

\* eff_id = int_id_map.find_parent_id(wanted_id); final_id = id_map.find_parent_id(eff_id)
TwoStage(int_id_map, id_map, wanted_id) ==
    LET eff_id == find_parent_id(int_id_map, wanted_id)
    IN  IF eff_id.raised # "" THEN eff_id ELSE find_parent_id(id_map, eff_id.value)

\* the body of "for ent in ("user", "group")" for one ent that is in kwargs:
\* entries is cnt_idmap's UidMap or GidMap, host the cached host map, text what
\* compose.unshare prints for this ent
ResolveEnt(p, tr, v, entries, host, text) ==
    LET wanted == WantedId(v)
        tr1 == IF host.cached THEN tr ELSE Append(tr, "unshare")
        id_map == IF host.cached THEN host.map ELSE from_str(text)
        rows == IF host.cached THEN <<>> ELSE StrRows(text)
        final == TwoStage(from_inspect(entries), id_map, wanted.value)
    IN  IF wanted.raised # "" THEN [tr |-> tr, out |-> wanted]
        ELSE IF ~AllInts2(InspectRows(entries)) THEN [tr |-> tr, out |-> Raise("ValueError")]
        ELSE IF ~host.cached /\ OwnerRaises(p, tr)
             THEN [tr |-> tr1, out |-> Raise("CommandExecutionError")]
        ELSE IF ~AllInts2(rows) THEN [tr |-> tr1, out |-> Raise("ValueError")]
        ELSE [tr |-> tr1, out |-> final]

\* for ent in ("user", "group"): ...; return kwargs
OwnerTranslate(p, tr, cnt_idmap, idmap_host, kwargs) ==
    LET Group(tru) ==
            ResolveEnt(p, tru, kwargs.group, cnt_idmap.GidMap,
                       [cached |-> idmap_host.cached, map |-> idmap_host.gid], p.gid_map)
        Both(u, tru, g) ==
            LET trg == IF kwargs.group.kind = "absent" THEN tru ELSE g.tr
            IN  IF kwargs.user.kind # "absent" /\ u.out.raised # ""
                THEN OwnerRaised(tru, u.out.raised)
                ELSE IF kwargs.group.kind # "absent" /\ g.out.raised # ""
                     THEN OwnerRaised(trg, g.out.raised)
                ELSE OwnerReturned(trg,
                         [user |-> IF kwargs.user.kind = "absent" THEN Absent
                                   ELSE IntVal(u.out.value),
                          group |-> IF kwargs.group.kind = "absent" THEN Absent
                                    ELSE IntVal(g.out.value)])
        User(u, tru) == Both(u, tru, Group(tru))
        After(u) == User(u, IF kwargs.user.kind = "absent" THEN tr ELSE u.tr)
    IN  After(ResolveEnt(p, tr, kwargs.user, cnt_idmap.UidMap,
                         [cached |-> idmap_host.cached, map |-> idmap_host.uid],
                         p.uid_map))

\* "uid=1000" -> param, val = defn.split("="); cnt_user / cnt_group = int(val)
RECURSIVE KeepIdOptions(_, _, _, _)
KeepIdOptions(defns, i, cnt_user, cnt_group) ==
    IF i > Len(defns) THEN [raised |-> "", user |-> cnt_user, group |-> cnt_group]
    ELSE LET parts == Split(defns[i], "=")
             param == parts[1]
             val == parts[2]
         IN  IF Len(parts) # 2
             THEN [raised |-> "ValueError", user |-> cnt_user, group |-> cnt_group]
             ELSE IF param = <<"u", "i", "d">>
                  THEN IF IsIntText(val)
                       THEN KeepIdOptions(defns, i + 1, IntVal(IntOf(val)), cnt_group)
                       ELSE [raised |-> "ValueError", user |-> cnt_user, group |-> cnt_group]
             ELSE IF param = <<"g", "i", "d">>
                  THEN IF IsIntText(val)
                       THEN KeepIdOptions(defns, i + 1, cnt_user, IntVal(IntOf(val)))
                       ELSE [raised |-> "ValueError", user |-> cnt_user, group |-> cnt_group]
             ELSE KeepIdOptions(defns, i + 1, cnt_user, cnt_group)

\* userns = userns[7:]; if userns.startswith(":"): for defn in userns.split(","): ...
KeepIdParse(userns) ==
    LET rest == DropChars(userns, 7)
    IN  IF StartsWith(rest, <<":">>) THEN KeepIdOptions(Split(rest, ","), 1, Absent, Absent)
        ELSE [raised |-> "", user |-> Absent, group |-> Absent]

\* f"{child}:{parent}:{length}"
InspectEntry(child, parent, length) ==
    Decimal(child) \o <<":">> \o Decimal(parent) \o <<":">> \o Decimal(length)

\* [f"0:0:{cnt}", ...]: the first range does not step over namespace ID 0
KeepIdMapUnshifted(kept, host_size) ==
    << InspectEntry(0, 0, kept),
       InspectEntry(kept, 0, 1),
       InspectEntry(kept + 1, kept + 1, host_size - kept) >>

\* [..., f"{cnt+1}:{cnt+1}:{size - cnt - 1}"]: the last range is one ID short
KeepIdMapShort(kept, host_size) ==
    << InspectEntry(0, 1, kept),
       InspectEntry(kept, 0, 1),
       InspectEntry(kept + 1, kept + 1, host_size - kept - 1) >>

\* [f"0:1:{cnt}", f"{cnt}:0:1", f"{cnt+1}:{cnt+1}:{size - cnt}"]
KeepIdMap(kept, host_size) ==
    << InspectEntry(0, 1, kept),
       InspectEntry(kept, 0, 1),
       InspectEntry(kept + 1, kept + 1, host_size - kept) >>

\* idmap_host[...] = SubID.from_str(compose.unshare(...)) twice, then cnt_idmap
KeepIdSynthesise(p, tr, cnt_user, cnt_group, kwargs) ==
    LET tr1 == Append(tr, "unshare")
        tr2 == Append(tr1, "unshare")
        Sized(uid, gid, usize, gsize) ==
            IF gsize.raised # "" THEN OwnerRaised(tr2, gsize.raised)
            ELSE IF usize.raised # "" THEN OwnerRaised(tr2, usize.raised)
            ELSE OwnerTranslate(p, tr2,
                     [UidMap |-> KeepIdMap(cnt_user, usize.value),
                      GidMap |-> KeepIdMap(cnt_group, gsize.value)],
                     [cached |-> TRUE, uid |-> uid, gid |-> gid], kwargs)
        Parsed(uid, gid) == Sized(uid, gid, size(uid), size(gid))
        Read(urows, grows) ==
            IF OwnerRaises(p, tr) THEN OwnerRaised(tr1, "CommandExecutionError")
            ELSE IF ~AllInts2(urows) THEN OwnerRaised(tr1, "ValueError")
            ELSE IF OwnerRaises(p, tr1) THEN OwnerRaised(tr2, "CommandExecutionError")
            ELSE IF ~AllInts2(grows) THEN OwnerRaised(tr2, "ValueError")
            ELSE Parsed(from_str(p.uid_map), from_str(p.gid_map))
    IN  Read(StrRows(p.uid_map), StrRows(p.gid_map))

\* elif userns.startswith("keep-id"): ...
KeepId(p, tr, userns, fail_kwargs, kwargs) ==
    LET tr1 == Append(tr, "project_info")
        tr2 == Append(tr1, "user.info")
        Parsed(opt) ==
            LET lookup_account == opt.user = Absent \/ opt.group = Absent
            IN  IF opt.raised # "" THEN OwnerRaised(tr, opt.raised)
                ELSE IF lookup_account /\ OwnerRaises(p, tr)
                     THEN OwnerRaised(tr1, "CommandExecutionError")
                ELSE IF lookup_account /\ ~p.has_user
                     THEN check_fail(tr1, fail_kwargs, kwargs)
                ELSE IF lookup_account /\ OwnerRaises(p, tr1)
                     THEN OwnerRaised(tr2, "CommandExecutionError")
                ELSE IF lookup_account /\ ~p.account_known THEN OwnerRaised(tr2, "KeyError")
                ELSE KeepIdSynthesise(p, IF lookup_account THEN tr2 ELSE tr,
                                      IF opt.user = Absent THEN p.uid ELSE opt.user.n,
                                      IF opt.group = Absent THEN p.gid ELSE opt.group.n,
                                      kwargs)
    IN  Parsed(KeepIdParse(userns))

\* the options of one unit: userns wins over uidmap / gidmap
UnitRemap(options) ==
    IF "userns" \in options.keys
    THEN [userns |-> options.userns, uidmap |-> <<>>, gidmap |-> <<>>]
    ELSE [userns |-> <<>>,
          uidmap |-> IF "uidmap" \in options.keys THEN options.uidmap ELSE <<>>,
          gidmap |-> IF "gidmap" \in options.keys THEN options.gidmap ELSE <<>>]

\* the first container unit is taken, whatever container_ref says
SelectedAny(container_ref, cnt) == TRUE

\* if container_ref is not None and container_ref not in cnt: continue
Selected(container_ref, cnt) ==
    \/ container_ref.none
    \/ \E i \in 0..(Len(cnt.name) - Len(container_ref.s)) :
          SubSeq(cnt.name, i + 1, i + Len(container_ref.s)) = container_ref.s

KeepIdText == <<"k", "e", "e", "p", "-", "i", "d">>

\* Format possibly discovered remap defs as podman inspect would return
OwnerFromRemap(p, tr, remap, fail_kwargs, kwargs) ==
    IF remap.uidmap = <<>> /\ remap.gidmap = <<>> /\ StartsWith(remap.userns, KeepIdText)
    THEN KeepId(p, tr, remap.userns, fail_kwargs, kwargs)
    ELSE OwnerTranslate(p, tr,
                        IF remap.uidmap # <<>> \/ remap.gidmap # <<>>
                        THEN [UidMap |-> remap.uidmap, GidMap |-> remap.gidmap]
                        ELSE NoMaps,
                        NoHostMaps, kwargs)

\* the container is not running: inspect the service units
OwnerFromUnits(p, tr, container_ref, fail_kwargs, kwargs) ==
    LET tr1 == Append(tr, "list_installed_units")
        tr2 == Append(tr1, "inspect_unit")
        matching == {i \in 1..Len(p.containers) : Selected(container_ref, p.containers[i])}
        first == CHOOSE i \in matching : \A j \in matching : i <= j
        inspected == p.pods # <<>> \/ matching # {}
    IN  IF OwnerRaises(p, tr) THEN OwnerRaised(tr1, "CommandExecutionError")
        ELSE IF ~p.installed THEN check_fail(tr1, fail_kwargs, kwargs)
        ELSE IF inspected /\ OwnerRaises(p, tr1)
             THEN OwnerRaised(tr2, "CommandExecutionError")
        ELSE OwnerFromRemap(p, IF inspected THEN tr2 ELSE tr1,
                            IF p.pods # <<>> THEN UnitRemap(p.pods[1])
                            ELSE IF matching # {}
                                 THEN UnitRemap(p.containers[first].options)
                                 ELSE [userns |-> <<>>, uidmap |-> <<>>, gidmap |-> <<>>],
                            fail_kwargs, kwargs)

_resolve_owner(p, container_ref, fail_kwargs, kwargs) ==
    LET tr1 == <<"inspect">>
    IN  IF OwnerRaises(p, <<>>) THEN OwnerRaised(tr1, "CommandExecutionError")
        ELSE IF p.live
             THEN OwnerTranslate(p, tr1, IF p.has_idmappings THEN p.idmap ELSE NoMaps,
                                 NoHostMaps, kwargs)
             ELSE OwnerFromUnits(p, tr1, container_ref, fail_kwargs, kwargs)

(***************************************************************************)
(* The state machine: the state engine calls one state function at a time  *)
(* and reads the returned dictionary; while the function sleeps in a       *)
(* polling loop, other callers' calls run (nothing coordinates them).      *)
(***************************************************************************)
\* frame: what a call asleep in a polling loop goes on with (the clock,
\* start_time, the number of its next poll and the locals of installed())
Idle ==
    [op |-> "idle", sfun |-> "", test |-> FALSE, update |-> TRUE, force_recreate |-> FALSE,
     enable |-> TRUE, timeout |-> DefaultTimeout, env |-> NoEnv,
     pre |-> <<>>, post |-> <<>>, status |-> "idle", result |-> "", changes |-> {},
     comment |-> "", tr |-> <<>>, elapsed |-> Never, install_force |-> "unset",
     units_now |-> "unset",
     frame |-> [now |-> 0, start |-> Never, j |-> Never, locals |-> <<>>],
     others |-> FALSE]

NoLast == [valid |-> FALSE, update |-> TRUE]

NoLookup == [op |-> "none", submap |-> <<>>, fid |-> 0, out |-> Value(0)]

NoOwner == [op |-> "none"]

\* the callers of running() that are independent of each other, and a caller
\* that is not in a call. started: 0 compose.start not invoked, 1 invoked when
\* the composition was not running, 2 invoked when it was running
Callers == 1..MaxCallers

NotCalling ==
    [pc |-> "idle", test |-> FALSE, timeout |-> 0, elapsed |-> 0, result |-> "",
     changes |-> {}, started |-> 0, unsatisfied |-> FALSE]

Called(tr, name) == \E i \in 1..Len(tr) : tr[i] = name


\* the collaborator behaviours a call can meet; those it does not consult stay
\* at their defaults
EnvSet(falsys, effs, settles, durs) ==
    [fault : 0..MaxFaultAt, kind : FaultKinds, falsy : {"none"} \cup falsys,
     effective : {TRUE} \cup effs, settle : {0} \cup settles, dur : {0} \cup durs]

Consulted(env, out) ==
    /\ env.fault = 0 => env.kind = "CommandExecutionError"
    /\ env.fault <= Len(out.k.tr)
    /\ env.fault # 0 => out.k.tr[env.fault] # "bus.exists"
    /\ env.falsy # "none" => Called(out.k.tr, env.falsy)
    /\ ~env.effective => \E a \in SyncApply : Called(out.k.tr, a)
    /\ env.settle # 0 => \E a \in AsyncApply : Called(out.k.tr, a)
    /\ env.dur # 0 => out.k.start # Never

Settles == {Never} \cup (0..MaxSettle)
Durs == {0, MaxProbeDur}
Timeouts == {0, MaxTimeout}

\* the call as the state engine and the other callers find it: asleep in a
\* loop (status "sleeping") or back with its dictionary; others: another caller
\* has changed what the loop polls while the call slept
Record(op, sfun, pre, env, test, update, force_recreate, enable, timeout, out) ==
    [op |-> op, sfun |-> sfun, test |-> test, update |-> update,
     force_recreate |-> force_recreate,
     enable |-> enable, timeout |-> timeout, env |-> env,
     pre |-> pre, post |-> out.k.w, status |-> out.status, result |-> out.result,
     changes |-> out.changes, comment |-> out.comment, tr |-> out.k.tr,
     elapsed |-> IF out.k.start = Never THEN Never ELSE out.k.now - out.k.start,
     install_force |-> out.k.force, units_now |-> out.k.units_now,
     frame |-> IF out.status = "sleeping"
               THEN [now |-> out.k.now, start |-> out.k.start, j |-> out.k.j,
                     locals |-> out.k.locals]
               ELSE Idle.frame,
     others |-> FALSE]

\* time.sleep() returns: the call c, suspended with the running call k and the
\* changes noted so far, goes on with the next iteration of its loop and, in
\* installed(), with the statements after dead(); in mod_watch() verb is the
\* action that was called
Resume(c, k, changes) ==
    CASE c.op = "dead" -> DeadPoll(k, k.j, c.timeout, changes)
      [] c.op = "running" -> RunningPoll(k, k.j, c.timeout, changes)
      [] c.op = "systemd_service_running" -> SystemdPoll(k, k.j, c.timeout, TRUE, changes)
      [] c.op = "systemd_service_dead" -> SystemdPoll(k, k.j, c.timeout, FALSE, changes)
      [] c.op = "lingering_managed" ->
            LingerPoll(k, k.j, c.enable, ~c.test, IF c.test THEN "None" ELSE "True", changes)
      [] c.op = "mod_watch" ->
            WatchPoll(k, k.j, c.timeout, c.sfun, c.env.falsy = "none",
                      IF c.sfun = "dead" THEN "stopped"
                      ELSE IF Called(k.tr, "restart") THEN "restarted" ELSE "started")
      [] c.op = "installed" ->
            InstalledApply(k, k.locals[1], k.locals[2], k.locals[3], c.test)

RECURSIVE Undisturbed(_, _)
\* the call c, suspended as out, followed to its return, no other caller
\* acting; a loop that only polls is followed until its calls outnumber the
\* faults that can be injected.  The collaborator behaviours are drawn among
\* those that the call consults on this way.
Undisturbed(c, out) ==
    IF out.status # "sleeping" \/ (c.op # "installed" /\ Len(out.k.tr) >= MaxFaultAt)
    THEN out
    ELSE Undisturbed(c, Resume(c, out.k, out.changes))

CallInstalled ==
    /\ call.op = "idle"
    /\ "file" \in DOMAIN world
    /\ \E update \in BOOLEAN, force_recreate \in BOOLEAN, test \in BOOLEAN :
       \E env \in EnvSet({"install", "stop", "remove"},
                         BOOLEAN, Settles, {}) :
          LET out == installed(Begin(world, env), update, force_recreate, test)
              c == Record("installed", "", world, env, test, update, force_recreate, TRUE, DefaultTimeout,
                          out)
          IN  /\ Consulted(env, Undisturbed(c, out))
              /\ call' = c
              /\ world' = c.post
    /\ UNCHANGED <<last, lookup, owner, callers>>

CallRemoved ==
    /\ call.op = "idle"
    /\ "file" \in DOMAIN world
    /\ \E test \in BOOLEAN : \E env \in EnvSet({"remove"}, BOOLEAN, {}, {}) :
          LET out == removed(Begin(world, env), test)
              c == Record("removed", "", world, env, test, TRUE, FALSE, TRUE, DefaultTimeout,
                          out)
          IN  /\ Consulted(env, Undisturbed(c, out))
              /\ call' = c
              /\ world' = c.post
    /\ last' = NoLast
    /\ UNCHANGED <<lookup, owner, callers>>

CallDead ==
    /\ call.op = "idle"
    /\ "file" \in DOMAIN world
    /\ \E test \in BOOLEAN, timeout \in Timeouts :
       \E env \in EnvSet({"stop"}, {}, Settles, Durs) :
          LET out == dead(Begin(world, env), test, timeout)
              c == Record("dead", "", world, env, test, TRUE, FALSE, TRUE, timeout,
                          out)
          IN  /\ Consulted(env, Undisturbed(c, out))
              /\ call' = c
              /\ world' = c.post
    /\ last' = NoLast
    /\ UNCHANGED <<lookup, owner, callers>>

CallRunning ==
    /\ call.op = "idle"
    /\ "file" \in DOMAIN world
    /\ \E test \in BOOLEAN, timeout \in Timeouts :
       \E env \in EnvSet({"start"}, {}, Settles, Durs) :
          LET out == running(Begin(world, env), test, timeout)
              c == Record("running", "", world, env, test, TRUE, FALSE, TRUE, timeout,
                          out)
          IN  /\ Consulted(env, Undisturbed(c, out))
              /\ call' = c
              /\ world' = c.post
    /\ last' = NoLast
    /\ UNCHANGED <<lookup, owner, callers>>

CallEnabled ==
    /\ call.op = "idle"
    /\ "file" \in DOMAIN world
    /\ \E test \in BOOLEAN : \E env \in EnvSet({"enable"}, BOOLEAN, {}, {}) :
          LET out == enabled(Begin(world, env), test)
              c == Record("enabled", "", world, env, test, TRUE, FALSE, TRUE, DefaultTimeout,
                          out)
          IN  /\ Consulted(env, Undisturbed(c, out))
              /\ call' = c
              /\ world' = c.post
    /\ last' = NoLast
    /\ UNCHANGED <<lookup, owner, callers>>

CallDisabled ==
    /\ call.op = "idle"
    /\ "file" \in DOMAIN world
    /\ \E test \in BOOLEAN : \E env \in EnvSet({"disable"}, BOOLEAN, {}, {}) :
          LET out == disabled(Begin(world, env), test)
              c == Record("disabled", "", world, env, test, TRUE, FALSE, TRUE, DefaultTimeout,
                          out)
          IN  /\ Consulted(env, Undisturbed(c, out))
              /\ call' = c
              /\ world' = c.post
    /\ last' = NoLast
    /\ UNCHANGED <<lookup, owner, callers>>

CallLingeringManaged ==
    /\ call.op = "idle"
    /\ "marker" \in DOMAIN world
    /\ \E enable \in BOOLEAN, test \in BOOLEAN :
       \E env \in EnvSet({"lingering_enable", "lingering_disable"}, {}, Settles, {}) :
          LET out == lingering_managed(Begin(world, env), enable, test)
              c == Record("lingering_managed", "", world, env, test, TRUE, FALSE, enable, DefaultTimeout,
                          out)
          IN  /\ Consulted(env, Undisturbed(c, out))
              /\ call' = c
              /\ world' = c.post
    /\ last' = NoLast
    /\ UNCHANGED <<lookup, owner, callers>>

CallSystemdEnabled ==
    /\ call.op = "idle"
    /\ DOMAIN world = {"running", "enabled"}
    /\ \E test \in BOOLEAN :
       \E env \in EnvSet({"systemctl_enable"}, BOOLEAN, {}, {}) :
          LET out == systemd_service_enabled(Begin(world, env), test)
              c == Record("systemd_service_enabled", "", world, env, test, TRUE, FALSE, TRUE, DefaultTimeout,
                          out)
          IN  /\ Consulted(env, Undisturbed(c, out))
              /\ call' = c
              /\ world' = c.post
    /\ last' = NoLast
    /\ UNCHANGED <<lookup, owner, callers>>

CallSystemdDisabled ==
    /\ call.op = "idle"
    /\ DOMAIN world = {"running", "enabled"}
    /\ \E test \in BOOLEAN :
       \E env \in EnvSet({"systemctl_disable"}, BOOLEAN, {}, {}) :
          LET out == systemd_service_disabled(Begin(world, env), test)
              c == Record("systemd_service_disabled", "", world, env, test, TRUE, FALSE, TRUE, DefaultTimeout,
                          out)
          IN  /\ Consulted(env, Undisturbed(c, out))
              /\ call' = c
              /\ world' = c.post
    /\ last' = NoLast
    /\ UNCHANGED <<lookup, owner, callers>>

CallSystemdRunning ==
    /\ call.op = "idle"
    /\ DOMAIN world = {"running", "enabled"}
    /\ \E test \in BOOLEAN, timeout \in Timeouts :
       \E env \in EnvSet({"systemctl_start"}, {}, Settles, Durs) :
          LET out == systemd_service_running(Begin(world, env), test, timeout)
              c == Record("systemd_service_running", "", world, env, test, TRUE, FALSE, TRUE, timeout,
                          out)
          IN  /\ Consulted(env, Undisturbed(c, out))
              /\ call' = c
              /\ world' = c.post
    /\ last' = NoLast
    /\ UNCHANGED <<lookup, owner, callers>>

CallSystemdDead ==
    /\ call.op = "idle"
    /\ DOMAIN world = {"running", "enabled"}
    /\ \E test \in BOOLEAN, timeout \in Timeouts :
       \E env \in EnvSet({"systemctl_stop"}, {}, Settles, Durs) :
          LET out == systemd_service_dead(Begin(world, env), test, timeout)
              c == Record("systemd_service_dead", "", world, env, test, TRUE, FALSE, TRUE, timeout,
                          out)
          IN  /\ Consulted(env, Undisturbed(c, out))
              /\ call' = c
              /\ world' = c.post
    /\ last' = NoLast
    /\ UNCHANGED <<lookup, owner, callers>>

CallModWatch ==
    /\ call.op = "idle"
    /\ "file" \in DOMAIN world
    /\ \E sfun \in {"dead", "running", "installed", "enabled", "None"}, test \in BOOLEAN, timeout \in Timeouts :
       \E env \in EnvSet({"stop", "start", "restart", "install"}, BOOLEAN, Settles, Durs) :
          LET out == mod_watch(Begin(world, env), sfun, test, timeout)
              c == Record("mod_watch", sfun, world, env, test, TRUE, FALSE, TRUE, timeout,
                          out)
          IN  /\ Consulted(env, Undisturbed(c, out))
              /\ call' = c
              /\ world' = c.post
    /\ last' = NoLast
    /\ UNCHANGED <<lookup, owner, callers>>

\* time.sleep() of the suspended call returns: the call goes on from its frame
\* with the composition (the unit, the account) as it is now
Wake ==
    /\ call.status = "sleeping"
    /\ LET k == [tr |-> call.tr, now |-> call.frame.now, start |-> call.frame.start,
                 w |-> call.post, env |-> call.env, force |-> call.install_force,
                 units_now |-> call.units_now, j |-> call.frame.j,
                 locals |-> call.frame.locals]
       IN  call' = [Record(call.op, call.sfun, call.pre, call.env, call.test, call.update,
                           call.force_recreate, call.enable, call.timeout,
                           Resume(call, k, call.changes))
                    EXCEPT !.others = call.others]
    /\ world' = call'.post
    /\ UNCHANGED <<last, lookup, owner, callers>>

\* what a call of another caller leaves of the composition (the unit, the
\* account) w.  The other callers call the status functions (running, dead,
\* enabled, disabled and their systemd_service_ counterparts, or
\* lingering_managed) with the defaults of their arguments, and the
\* collaborators answer them at once.
Others(w) ==
    IF "file" \in DOMAIN w
    THEN {dead(Begin(w, NoEnv), FALSE, DefaultTimeout).k.w,
          running(Begin(w, NoEnv), FALSE, DefaultTimeout).k.w,
          enabled(Begin(w, NoEnv), FALSE).k.w,
          disabled(Begin(w, NoEnv), FALSE).k.w}
    ELSE IF "marker" \in DOMAIN w
    THEN {lingering_managed(Begin(w, NoEnv), enable, FALSE).k.w : enable \in BOOLEAN}
    ELSE {systemd_service_enabled(Begin(w, NoEnv), FALSE).k.w,
          systemd_service_disabled(Begin(w, NoEnv), FALSE).k.w,
          systemd_service_running(Begin(w, NoEnv), FALSE, DefaultTimeout).k.w,
          systemd_service_dead(Begin(w, NoEnv), FALSE, DefaultTimeout).k.w}

\* while the call sleeps, another, independent caller calls a state function
\* on the same composition (unit, account) and gets its answer; others: it has
\* changed what the loops poll (is_running / is_dead / systemctl is-active, the
\* session marker)
Meanwhile ==
    /\ call.status = "sleeping"
    /\ \E w \in Others(call.post) \ {call.post} :
          /\ call' = [call EXCEPT !.post = w,
                                  !.others = @ \/ \E f \in {"running", "marker"} \cap DOMAIN w :
                                                        w[f] # call.post[f]]
          /\ world' = w
    /\ UNCHANGED <<last, lookup, owner, callers>>

(***************************************************************************)
(* The ownership wrappers (file_copy, file_directory, ...) call            *)
(* _resolve_owner; the project, the request and the SubID maps are drawn   *)
(* from the sets below.                                                    *)
(***************************************************************************)
\* one line of /proc/self/uid_map as the kernel prints it
MapLine(child, parent, length) ==
    <<" ", " ">> \o Decimal(child) \o <<" ">> \o Decimal(parent)
        \o <<" ", " ", " ">> \o Decimal(length) \o <<"\n">>

\* a rootless account (uid 1000, gid 100) with 65536 subordinate IDs
RootlessUidMap == MapLine(0, 1000, 1) \o MapLine(1, 100000, 65536)

\* a namespace of ten IDs
SmallUidMap == MapLine(0, 100, 10)

HostMaps ==
    { [uid_map |-> RootlessUidMap,
       gid_map |-> MapLine(0, 100, 1) \o MapLine(1, 200000, 65536)],
      [uid_map |-> SmallUidMap, gid_map |-> MapLine(0, 300, 10)] }

\* HostConfig.IDMappings of a running container
LiveMaps ==
    { NoMaps,
      [UidMap |-> KeepIdMap(1000, 65536), GidMap |-> KeepIdMap(100, 65536)],
      [UidMap |-> <<InspectEntry(0, 5, 5)>>,
       GidMap |-> <<InspectEntry(3, 7, 2), InspectEntry(0, 1, 3)>>] }

\* the options of a unit as compose.inspect_unit reports them
NoOptions == [keys |-> {}, userns |-> <<>>, uidmap |-> <<>>, gidmap |-> <<>>]

UnitOptions ==
    { NoOptions,
      [NoOptions EXCEPT !.keys = {"userns"}, !.userns = KeepIdText],
      [NoOptions EXCEPT !.keys = {"userns"},
                        !.userns = KeepIdText \o <<":", "u", "i", "d", "=", "5", ",",
                                                   "g", "i", "d", "=", "3">>],
      [NoOptions EXCEPT !.keys = {"userns"},
                        !.userns = KeepIdText \o <<":", "g", "i", "d", "=", "3", ",",
                                                   "u", "i", "d", "=", "5">>],
      [NoOptions EXCEPT !.keys = {"userns"},
                        !.userns = KeepIdText \o <<":", "u", "i", "d", "=", "5">>],
      [NoOptions EXCEPT !.keys = {"userns"},
                        !.userns = KeepIdText \o <<":", "g", "i", "d", "=", "3">>],
      [NoOptions EXCEPT !.keys = {"userns"}, !.userns = <<"h", "o", "s", "t">>],
      [NoOptions EXCEPT !.keys = {"uidmap", "gidmap"},
                        !.uidmap = <<InspectEntry(0, 5, 5)>>,
                        !.gidmap = <<InspectEntry(3, 7, 2), InspectEntry(0, 1, 3)>>],
      [NoOptions EXCEPT !.keys = {"uidmap"}, !.uidmap = <<InspectEntry(0, 1, 9)>>] }

NoRef == [none |-> TRUE, s |-> <<>>]

\* container_ref: None, part of the second name, part of both names, part of none
Refs == {NoRef, [none |-> FALSE, s |-> <<"d", "b">>], [none |-> FALSE, s |-> <<"a">>],
         [none |-> FALSE, s |-> <<"x">>]}

\* what the collaborators report about the project; a field that the call does
\* not read stays at its default
NoProject ==
    [fault |-> 0, live |-> FALSE, has_idmappings |-> FALSE, idmap |-> NoMaps,
     installed |-> FALSE, pods |-> <<>>, containers |-> <<>>,
     has_user |-> TRUE, account_known |-> TRUE, uid |-> 1000, gid |-> 100,
     uid_map |-> RootlessUidMap,
     gid_map |-> MapLine(0, 100, 1) \o MapLine(1, 200000, 65536)]

Projects ==
    { [NoProject EXCEPT !.live = TRUE] }
    \cup { [NoProject EXCEPT !.live = TRUE, !.has_idmappings = TRUE, !.idmap = m] :
               m \in LiveMaps }
    \cup { [NoProject EXCEPT !.live = TRUE, !.has_idmappings = TRUE,
                             !.idmap = [UidMap |-> <<InspectEntry(0, 5, 5)>>,
                                        GidMap |-> <<InspectEntry(0, 1, 3)>>],
                             !.installed = TRUE,
                             !.pods = <<[NoOptions EXCEPT !.keys = {"userns"},
                                                          !.userns = KeepIdText]>>] }
    \cup { NoProject }
    \cup { [NoProject EXCEPT !.installed = TRUE] }
    \cup { [NoProject EXCEPT !.installed = TRUE, !.pods = <<o>>,
                             !.containers =
                                 <<[name |-> <<"a", "p", "p">>,
                                    options |-> [NoOptions EXCEPT
                                                    !.keys = {"uidmap"},
                                                    !.uidmap = <<InspectEntry(0, 7, 3)>>]]>>] :
               o \in UnitOptions }
    \cup { [NoProject EXCEPT !.installed = TRUE,
                             !.containers = << [name |-> <<"a", "p", "p">>, options |-> o],
                                               [name |-> <<"d", "b", "a">>, options |-> NoOptions] >>] :
               o \in UnitOptions }
    \cup { [NoProject EXCEPT !.installed = TRUE,
                             !.containers = << [name |-> <<"a", "p", "p">>, options |-> NoOptions],
                                               [name |-> <<"d", "b", "a">>, options |-> o] >>] :
               o \in UnitOptions }
    \cup { [NoProject EXCEPT !.installed = TRUE, !.has_user = u, !.account_known = a,
                             !.pods = <<[NoOptions EXCEPT !.keys = {"userns"},
                                                          !.userns = KeepIdText]>>] :
               u \in BOOLEAN, a \in BOOLEAN }

Ids == (0..MaxId) \cup {20, 1000, 1001, 65536, 65537}

Users ==
    { Absent, StrVal(<<"r", "o", "o", "t">>), StrVal(<<"w", "w", "w">>),
      StrVal(<<"1", "0", "0", "0">>) }
    \cup { IntVal(n) : n \in Ids }

Groups ==
    { Absent, StrVal(<<"r", "o", "o", "t">>), StrVal(<<"w", "w", "w">>) }
    \cup { IntVal(n) : n \in {3, 100} }

NoFailKwargs == [none |-> TRUE, user |-> Absent, group |-> Absent]

FailKwargs ==
    { NoFailKwargs,
      [none |-> FALSE, user |-> StrVal(<<"r", "o", "o", "t">>), group |-> Absent] }

SubMaps ==
    { <<>>,
      << <<0, 100, 10>> >>,
      << <<0, 100, 10>>, <<5, 200, 10>> >>,
      << <<3, 7, 2>>, <<0, 1, 3>> >>,
      << <<0, 5, 0>>, <<2, 9, 1>> >>,
      from_str(RootlessUidMap),
      from_inspect(KeepIdMap(1000, 65536)) }
    \cup { from_inspect(KeepIdMap(ks[1], ks[2])) :
              ks \in {x \in (0..MaxHostSize) \X (0..MaxHostSize) : x[1] <= x[2]} }

\* SubID(submap).find_parent_id(fid)
CallFindParentId ==
    /\ lookup.op = "none" /\ owner.op = "none"
    /\ \E submap \in SubMaps, fid \in Ids :
          lookup' = [op |-> "find_parent_id", submap |-> submap, fid |-> fid,
                     out |-> find_parent_id(submap, fid)]
    /\ UNCHANGED <<world, call, last, owner, callers>>

\* SubID(submap).size()
CallSize ==
    /\ lookup.op = "none" /\ owner.op = "none"
    /\ \E submap \in SubMaps :
          lookup' = [op |-> "size", submap |-> submap, fid |-> 0, out |-> size(submap)]
    /\ UNCHANGED <<world, call, last, owner, callers>>

\* file_copy(name, project, container_ref, fail_kwargs, **kwargs) and the other
\* wrappers, up to the call of the wrapped file state
CallResolveOwner ==
    /\ lookup.op = "none" /\ owner.op = "none"
    /\ \E project \in Projects, host \in HostMaps, container_ref \in Refs,
          fail_kwargs \in FailKwargs, user \in Users, group \in Groups :
          LET p0 == [project EXCEPT !.uid_map = host.uid_map, !.gid_map = host.gid_map]
              kwargs == [user |-> user, group |-> group]
          IN  /\ (p0.live \/ p0.pods # <<>> \/ p0.containers = <<>>) => container_ref = NoRef
              /\ (p0.live \/ (p0.installed /\ p0.has_user)) => fail_kwargs = NoFailKwargs
              /\ \E fault \in 0..MaxOwnerFault :
                    LET p == [p0 EXCEPT !.fault = fault]
                        Done(out) ==
                            /\ fault <= Len(out.tr)
                            /\ ~Called(out.tr, "unshare") => host.uid_map = RootlessUidMap
                            /\ owner' = [op |-> "_resolve_owner", p |-> p,
                                         container_ref |-> container_ref,
                                         fail_kwargs |-> fail_kwargs, kwargs |-> kwargs,
                                         status |-> out.status, raised |-> out.raised,
                                         user |-> out.user, group |-> out.group,
                                         tr |-> out.tr]
                    IN  Done(_resolve_owner(p, container_ref, fail_kwargs, kwargs))
    /\ UNCHANGED <<world, call, last, lookup, callers>>

\* the method or the wrapper has returned (or raised) to its caller
OwnerReturn ==
    /\ lookup.op # "none" \/ owner.op # "none"
    /\ lookup' = NoLookup
    /\ owner' = NoOwner
    /\ UNCHANGED <<world, call, last, callers>>

\* the call has returned (or raised) to the state engine, which may call again
Return ==
    /\ call.op # "idle"
    /\ call.status \notin {"looping", "sleeping"}
    /\ last' = IF /\ call.op = "installed" /\ call.status = "returned"
                  /\ call.result = "True" /\ ~call.test /\ ~call.force_recreate
               THEN [valid |-> TRUE, update |-> call.update]
               ELSE NoLast
    /\ call' = Idle
    /\ UNCHANGED <<world, lookup, owner, callers>>

Init ==
    /\ world \in Worlds \cup Units \cup Accounts
    /\ call = Idle
    /\ last = NoLast
    /\ lookup = NoLookup
    /\ owner = NoOwner
    /\ callers = [c \in Callers |-> NotCalling]

Next ==
    \/ CallInstalled
    \/ CallRemoved
    \/ CallDead
    \/ CallRunning
    \/ CallEnabled
    \/ CallDisabled
    \/ CallLingeringManaged
    \/ CallSystemdEnabled
    \/ CallSystemdDisabled
    \/ CallSystemdRunning
    \/ CallSystemdDead
    \/ CallModWatch
    \/ Wake
    \/ Meanwhile
    \/ Return

Spec == Init /\ [][Next]_vars

\* the ownership wrappers and the SubID maps on their own: the composition is
\* installed and running and no lifecycle call is in progress
OwnerInit ==
    /\ world = [file |-> TRUE, units |-> "all", contentDiff |-> FALSE, unitFile |-> "same",
                pods |-> TRUE, running |-> TRUE, enabled |-> TRUE]
    /\ call = Idle
    /\ last = NoLast
    /\ lookup = NoLookup
    /\ owner = NoOwner
    /\ callers = [c \in Callers |-> NotCalling]

OwnerNext ==
    \/ CallFindParentId
    \/ CallSize
    \/ CallResolveOwner
    \/ OwnerReturn

OwnerSpec == OwnerInit /\ [][OwnerNext]_vars

(***************************************************************************)
(* Independent callers.  The state functions take no lock and keep nothing *)
(* between calls, so two minions' (or two processes') calls of running()   *)
(* on one composition interleave at every collaborator call.  Each step    *)
(* below is one collaborator call of running() with the statements up to   *)
(* the next one.                                                           *)
(***************************************************************************)
\* ret is returned (or the fault is caught and ret is returned)
Finish(c, result, changes) ==
    callers' = [callers EXCEPT ![c].pc = "done", ![c].result = result,
                               ![c].changes = changes]

\* running(name, timeout=timeout) is called: compose.is_running, then the
\* already-running and the dry-run returns
RunningBegin(c) ==
    /\ callers[c].pc = "idle"
    /\ \E test \in BOOLEAN, timeout \in Timeouts, raises \in BOOLEAN :
          callers' = [callers EXCEPT ![c] =
              IF raises
              THEN [NotCalling EXCEPT !.pc = "done", !.test = test, !.timeout = timeout,
                                      !.result = "False"]
              ELSE IF is_running(world)
              THEN [NotCalling EXCEPT !.pc = "done", !.test = test, !.timeout = timeout,
                                      !.result = "True"]
              ELSE IF OptsTest(test)
              THEN [NotCalling EXCEPT !.pc = "done", !.test = test, !.timeout = timeout,
                                      !.result = "None", !.changes = {"started"},
                                      !.unsatisfied = TRUE]
              ELSE [NotCalling EXCEPT !.pc = "apply", !.test = test, !.timeout = timeout,
                                      !.unsatisfied = TRUE]]
    /\ UNCHANGED <<world, call, last, lookup, owner>>

\* compose.start is called while another caller's compose.start is under way
RunningStartLocked(c) ==
    /\ callers[c].pc = "apply"
    /\ \A d \in Callers \ {c} : callers[d].started = 0
    /\ callers' = [callers EXCEPT ![c].pc = "verify", ![c].changes = {"started"},
                                  ![c].started = 1]
    /\ UNCHANGED <<world, call, last, lookup, owner>>

\* if compose.start(...): ... else: raise; start_time = time.time()
RunningStart(c) ==
    /\ callers[c].pc = "apply"
    /\ \E answer \in {"truthy", "falsy", "raises"} :
          callers' = [callers EXCEPT ![c] =
              [@ EXCEPT !.pc = IF answer = "truthy" THEN "verify" ELSE "done",
                        !.result = IF answer = "truthy" THEN "" ELSE "False",
                        !.changes = IF answer = "truthy" THEN {"started"} ELSE {},
                        !.started = IF is_running(world) THEN 2 ELSE 1]]
    /\ UNCHANGED <<world, call, last, lookup, owner>>

\* one iteration of: while not compose.is_running(...): ...; time.sleep(0.25)
RunningVerify(c) ==
    /\ callers[c].pc = "verify"
    /\ \E raises \in BOOLEAN :
          IF raises THEN Finish(c, "False", callers[c].changes)
          ELSE IF is_running(world) THEN Finish(c, "True", callers[c].changes)
          ELSE IF TimedOut(callers[c].elapsed, 0, Seconds(callers[c].timeout))
               THEN Finish(c, "False", {})
               ELSE callers' = [callers EXCEPT ![c].elapsed = @ + PollSleep]
    /\ UNCHANGED <<world, call, last, lookup, owner>>

\* the caller has its answer and may call again
RunningReturn(c) ==
    /\ callers[c].pc = "done"
    /\ callers' = [callers EXCEPT ![c] = NotCalling]
    /\ UNCHANGED <<world, call, last, lookup, owner>>

\* the units started by a truthy compose.start become active
StartTakesEffect ==
    /\ ~is_running(world)
    /\ \E c \in Callers : callers[c].pc = "verify"
    /\ world' = [world EXCEPT !.running = TRUE]
    /\ UNCHANGED <<call, last, lookup, owner, callers>>

\* an installed composition, running or not, and no call in progress
ConcurrentInit ==
    /\ world \in {w \in Worlds : /\ w.file /\ w.units = "all" /\ ~w.contentDiff
                                 /\ w.unitFile = "same" /\ w.pods /\ w.enabled}
    /\ call = Idle
    /\ last = NoLast
    /\ lookup = NoLookup
    /\ owner = NoOwner
    /\ callers = [c \in Callers |-> NotCalling]

ConcurrentNext ==
    \/ \E c \in Callers : RunningBegin(c)
    \/ \E c \in Callers : RunningStart(c)
    \/ \E c \in Callers : RunningVerify(c)
    \/ \E c \in Callers : RunningReturn(c)
    \/ StartTakesEffect

ConcurrentSpec == ConcurrentInit /\ [][ConcurrentNext]_vars

TypeOK ==
    /\ world \in Worlds \cup Units \cup Accounts
    /\ call.status \in {"idle", "returned", "uncaught", "looping", "sleeping"}
    /\ call.result \in {"", "True", "False", "None", "raised"}

(***************************************************************************)
(* Properties.                                                             *)
(***************************************************************************)
Lifecycle == {"installed", "removed", "dead", "running", "enabled", "disabled",
              "lingering_managed", "systemd_service_enabled",
              "systemd_service_running", "systemd_service_disabled",
              "systemd_service_dead"}

Polling == {"running", "dead", "systemd_service_running", "systemd_service_dead",
            "mod_watch"}

NoApply(tr) == \A i \in 1..Len(tr) : tr[i] \notin Apply

\* the call is suspended in time.sleep(): it has no outcome yet
Pending == call.status = "sleeping"

\* no other caller has changed what the loop of the call polls
Unaided == ~call.others

\* a collaborator call made by the called function itself raised (a fault inside
\* the dead()/removed() calls nested in installed() is handled by those calls)
FaultRaised ==
    /\ call.env.fault \in 1..Len(call.tr)
    /\ ~(/\ call.op = "installed"
         /\ call.tr[call.env.fault] \notin {"install", "install_units", "list_missing_units"}
         /\ \E i \in 1..call.env.fault : call.tr[i] = "find_compose_file")

\* the unit text probe of installed() finds a difference
UnitTextDiffers(w) == w.pods /\ w.unitFile # "same"

\* the state probe of the called function shows that the target already holds
Satisfied ==
    \/ /\ call.op = "installed" /\ ~call.force_recreate
       /\ list_installed_units(call.pre) /\ ~has_changes(call.pre)
       /\ ~UnitTextDiffers(call.pre)
    \/ call.op = "removed" /\ call.pre.file /\ ~list_installed_units(call.pre)
    \/ /\ call.op = "dead" /\ call.pre.file /\ list_installed_units(call.pre)
       /\ ~is_running(call.pre)
    \/ call.op = "running" /\ is_running(call.pre)
    \/ call.op = "enabled" /\ is_enabled(call.pre)
    \/ /\ call.op = "disabled" /\ call.pre.file /\ list_installed_units(call.pre)
       /\ ~is_enabled(call.pre)
    \/ /\ call.op = "lingering_managed" /\ call.pre.exists
       /\ call.pre.lingering = call.enable
    \/ call.op = "systemd_service_enabled" /\ call.pre.enabled
    \/ call.op = "systemd_service_disabled" /\ ~call.pre.enabled
    \/ call.op = "systemd_service_running" /\ call.pre.running
    \/ call.op = "systemd_service_dead" /\ ~call.pre.running

\* the probes of the called function show that the target does not hold
Unsatisfied ==
    \/ /\ call.op = "installed"
       /\ \/ call.force_recreate
          \/ ~list_installed_units(call.pre)
          \/ call.update /\ (has_changes(call.pre) \/ UnitTextDiffers(call.pre))
    \/ call.op = "removed" /\ call.pre.file /\ list_installed_units(call.pre)
    \/ /\ call.op = "dead" /\ call.pre.file /\ list_installed_units(call.pre)
       /\ is_running(call.pre)
    \/ call.op = "running" /\ ~is_running(call.pre)
    \/ call.op = "enabled" /\ ~is_enabled(call.pre)
    \/ /\ call.op = "disabled" /\ call.pre.file /\ list_installed_units(call.pre)
       /\ is_enabled(call.pre)
    \/ /\ call.op = "lingering_managed" /\ call.pre.exists
       /\ call.pre.lingering # call.enable
    \/ call.op = "systemd_service_enabled" /\ ~call.pre.enabled
    \/ call.op = "systemd_service_disabled" /\ call.pre.enabled
    \/ call.op = "systemd_service_running" /\ ~call.pre.running
    \/ call.op = "systemd_service_dead" /\ call.pre.running

\* C1: with the evaluation-only flag set, no lifecycle state function invokes
\* an Apply action, whatever the probes report and whatever the arguments are.
C1_DryRunNoApply ==
    (call.op \in Lifecycle /\ call.test) => NoApply(call.tr)

C1_Witness ==
    /\ call.op = "installed" /\ call.test /\ call.force_recreate
    /\ call.result = "None" /\ call.changes = {"updated"}

\* C2: an installed() call that directly follows a successful installed() call
\* (force_recreate false, dry-run off) with the same arguments, every collaborator
\* answering, returns True with no changes and invokes none of install,
\* install_units, stop and remove.
C2_InstalledIdempotent ==
    (/\ call.op = "installed" /\ last.valid /\ call.update = last.update
     /\ ~call.force_recreate /\ ~call.test /\ call.env.fault = 0)
    => /\ call.status = "returned" /\ call.result = "True" /\ call.changes = {}
       /\ \A a \in {"install", "install_units", "stop", "remove"} : ~Called(call.tr, a)

C2_Witness ==
    /\ call.op = "installed" /\ last.valid /\ call.update /\ last.update
    /\ ~call.force_recreate /\ ~call.test /\ call.env.fault = 0
    /\ Called(call.tr, "has_changes") /\ call.result = "True"

\* C3: no top-level operation terminates with an uncaught fault.
C3_NoFaultEscapes == call.status # "uncaught"

\* the verify probe of a polling function never reports the target after an
\* Apply that succeeded: neither the Apply nor another caller brings it about
NeverConverges ==
    /\ call.op \in Polling /\ call.elapsed # Never /\ ~Pending /\ Unaided
    /\ call.env.falsy = "none" /\ call.env.settle = Never /\ call.env.fault = 0

\* C4 (as stated): when the verify probe never reports the target, the call fails
\* with no changes after more than timeout and at most timeout plus one polling
\* interval.
C4_TimeoutWithinOneInterval ==
    NeverConverges
    => /\ call.status = "returned" /\ call.result = "False" /\ call.changes = {}
       /\ call.elapsed > Seconds(call.timeout)
       /\ call.elapsed <= Seconds(call.timeout) + PollSleep

\* C4 (amended): when the verify probe never reports the target, the call fails
\* with no changes at the first probe that ends after timeout has elapsed: later
\* than timeout, and at most one polling interval plus the duration of that probe
\* call after it.
C4_TimeoutAtFirstLateProbe ==
    NeverConverges
    => /\ call.status = "returned" /\ call.result = "False" /\ call.changes = {}
       /\ call.elapsed > Seconds(call.timeout)
       /\ call.elapsed <= Seconds(call.timeout) + PollSleep + call.env.dur

C4_Witness ==
    /\ NeverConverges /\ call.op = "dead" /\ call.env.dur > 0 /\ call.timeout > 0
    /\ call.result = "False" /\ call.changes = {}

\* the composition is installed and has_changes reports a content diff
RecreateCase ==
    /\ call.op = "installed" /\ ~call.test /\ ~call.force_recreate
    /\ Called(call.tr, "has_changes")
    /\ list_installed_units(call.pre) /\ has_changes(call.pre)

\* C5: on the recreate path of installed(), every stop precedes every remove,
\* which precedes install; install is never invoked before a teardown step.
C5_RecreateOrder ==
    RecreateCase
    => \A i \in 1..Len(call.tr) : \A j \in 1..Len(call.tr) :
          i < j => /\ ~(call.tr[i] = "remove" /\ call.tr[j] = "stop")
                   /\ ~(call.tr[i] = "install" /\ call.tr[j] \in {"stop", "remove"})

C5_Witness ==
    /\ RecreateCase
    /\ \E i \in 1..Len(call.tr) : \E j \in 1..Len(call.tr) : \E l \in 1..Len(call.tr) :
          /\ i < j /\ j < l
          /\ call.tr[i] = "stop" /\ call.tr[j] = "remove" /\ call.tr[l] = "install"

\* C6: when the state probe shows that the target already holds, the call
\* returns True with no changes, invokes no Apply action and polls nothing, in
\* dry-run and in normal mode.
C6_AlreadySatisfied ==
    (Satisfied /\ call.env.fault = 0)
    => /\ call.status = "returned" /\ call.result = "True" /\ call.changes = {}
       /\ NoApply(call.tr) /\ call.elapsed = Never

C6_Witness ==
    /\ Satisfied /\ call.op = "installed" /\ call.update /\ ~call.test
    /\ call.pre.pods /\ call.result = "True" /\ Called(call.tr, "file.read")

\* C7: in dry-run, when the probes show the target is not reached, the call
\* returns at once, without entering a poll loop, with result None and the
\* predicted change recorded.
C7_DryRunPredicts ==
    (call.op \in Lifecycle /\ call.test /\ Unsatisfied /\ call.env.fault = 0)
    => /\ call.status = "returned" /\ call.result = "None" /\ call.changes # {}
       /\ call.elapsed = Never

\* the Apply action named by env.falsy was invoked and returned a falsy value
FalsyApplyAt(i) ==
    /\ i \in 1..Len(call.tr) /\ call.tr[i] = call.env.falsy /\ call.env.fault # i

\* C8: with dry-run off, when the Apply action invoked returns a falsy value,
\* the outcome is a failure whose comment says "This should not happen", with no
\* changes, and nothing is probed after the failed Apply.
C8_FalsyApplyEscalates ==
    \A i \in 1..Len(call.tr) :
       (call.op \in Lifecycle /\ ~call.test /\ FalsyApplyAt(i))
       => /\ call.status = "returned" /\ call.result = "False"
          /\ call.comment = ShouldNotHappen /\ call.changes = {}
          /\ i = Len(call.tr)

\* C9: when a collaborator call raises, the outcome is a failure whose comment
\* is the fault message and whose changes are empty.
C9_FaultReportsNoChange ==
    (call.op \in Lifecycle /\ FaultRaised)
    => /\ call.status = "returned" /\ call.result = "False"
       /\ call.comment = FaultMsg(call.env) /\ call.changes = {}

\* C10: when find_compose_file reports not-found, removed(), dead() and
\* disabled() return True with no changes and the "assumed removed" comment, and
\* invoke neither list_installed_units nor any Apply action.
C10_MissingComposeFile ==
    (call.op \in {"removed", "dead", "disabled"} /\ ~call.pre.file /\ call.env.fault # 1)
    => /\ call.status = "returned" /\ call.result = "True" /\ call.changes = {}
       /\ call.comment = AssumedRemoved
       /\ call.tr = <<"find_compose_file">>

C10_Witness ==
    /\ call.op = "removed" /\ ~call.pre.file /\ ~call.test
    /\ list_installed_units(call.pre) /\ call.comment = AssumedRemoved

(***************************************************************************)
(* The watch dispatcher.                                                   *)
(***************************************************************************)
\* a mod_watch call for this target whose selecting is_running call returned
WatchCall(sfun) == call.op = "mod_watch" /\ call.sfun = sfun

\* the collaborator calls from position i on are all calls of probe
OnlyFrom(tr, i, probe) == \A j \in i..Len(tr) : tr[j] = probe

\* C11: mod_watch(sfun="dead"): when is_running is true, compose.stop is the
\* call that follows and after it only is_dead is polled (under dry-run the
\* stop is predicted, not made); when is_running is false the call returns True
\* with no changes and the "already stopped" comment and no Apply is invoked.
C11_WatchDead ==
    (WatchCall("dead") /\ call.env.fault # 1)
    => IF is_running(call.pre)
       THEN IF call.test
            THEN /\ call.tr = <<"is_running">>
                 /\ call.result = "None" /\ call.changes = {"stopped"}
            ELSE /\ Len(call.tr) >= 2 /\ call.tr[2] = "stop"
                 /\ OnlyFrom(call.tr, 3, "is_dead")
                 /\ call.env.fault # 2 => Len(call.tr) >= 3
       ELSE /\ call.tr = <<"is_running">>
            /\ call.result = "True" /\ call.changes = {}
            /\ call.comment = "Service is already stopped."

C11_Witness ==
    /\ WatchCall("dead") /\ ~call.test /\ is_running(call.pre)
    /\ call.tr = <<"is_running", "stop", "is_dead", "is_dead">>
    /\ call.result = "True" /\ call.changes = {"stopped"}

\* C12: mod_watch(sfun="running") invokes compose.restart and never
\* compose.start when is_running is true, compose.start and never
\* compose.restart otherwise, verifies by polling is_running only, and records
\* the change "restarted" resp. "started" (predicted under dry-run).
C12_WatchRunning ==
    (WatchCall("running") /\ call.env.fault # 1)
    => LET verb == IF is_running(call.pre) THEN "restart" ELSE "start"
           other == IF is_running(call.pre) THEN "start" ELSE "restart"
           key == IF is_running(call.pre) THEN "restarted" ELSE "started"
       IN  /\ ~Called(call.tr, other)
           /\ IF call.test
              THEN /\ call.tr = <<"is_running">>
                   /\ call.result = "None" /\ call.changes = {key}
              ELSE /\ Len(call.tr) >= 2 /\ call.tr[2] = verb
                   /\ OnlyFrom(call.tr, 3, "is_running")
                   /\ call.env.fault # 2 => Len(call.tr) >= 3
                   /\ call.changes \subseteq {key}
                   /\ call.result = "True" => call.changes = {key}

C12_Witness ==
    /\ WatchCall("running") /\ ~call.test /\ is_running(call.pre)
    /\ call.tr = <<"is_running", "restart", "is_running", "is_running">>
    /\ call.result = "True" /\ call.changes = {"restarted"}

\* C13: with dry-run off, mod_watch(sfun="installed") invokes compose.stop
\* exactly when is_running is true, then compose.install with
\* force_recreate=True as its last call; it consults neither has_changes nor
\* list_installed_units and never invokes compose.stop after compose.install.
C13_WatchInstalled ==
    (WatchCall("installed") /\ ~call.test /\ call.env.fault # 1)
    => LET n == IF is_running(call.pre) THEN 3 ELSE 2
       IN  /\ call.tr[1] = "is_running"
           /\ Called(call.tr, "stop") <=> is_running(call.pre)
           /\ is_running(call.pre) => call.tr[2] = "stop"
           /\ call.env.fault \notin 1..(n - 1)
              => /\ Len(call.tr) = n /\ call.tr[n] = "install"
                 /\ call.install_force = "True"
           /\ ~Called(call.tr, "has_changes")
           /\ ~Called(call.tr, "list_installed_units")
           /\ \A i, j \in 1..Len(call.tr) :
                 (call.tr[i] = "install" /\ call.tr[j] = "stop") => j < i

C13_Witness ==
    /\ WatchCall("installed") /\ ~call.test /\ is_running(call.pre)
    /\ has_changes(call.pre) = FALSE
    /\ call.tr = <<"is_running", "stop", "install">>
    /\ call.result = "True" /\ call.changes = {"recreated"}

\* C14: for every sfun outside {dead, running, installed} (None included),
\* mod_watch returns result False with empty changes and a comment naming that
\* sfun and calls no collaborator at all, in dry-run and in normal mode.
C14_WatchUnrecognised ==
    (call.op = "mod_watch" /\ call.sfun \notin {"dead", "running", "installed"})
    => /\ call.status = "returned" /\ call.result = "False" /\ call.changes = {}
       /\ call.tr = <<>>
       /\ call.sfun = "enabled"
          => call.comment = "Unable to trigger watch for compose.enabled"
       /\ call.sfun = "None"
          => call.comment = "Unable to trigger watch for compose.None"

C14_Witness ==
    /\ call.op = "mod_watch" /\ call.sfun = "None" /\ ~call.test
    /\ is_running(call.pre) /\ call.result = "False"

\* C15: under dry-run mod_watch invokes none of stop, start, restart and
\* install, does no verify polling (at most the one selecting is_running call,
\* no start_time), and for a recognised target that needs action returns
\* result None with the predicted change.
C15_WatchDryRun ==
    (call.op = "mod_watch" /\ call.test)
    => /\ NoApply(call.tr)
       /\ call.elapsed = Never
       /\ Len(call.tr) <= 1 /\ OnlyFrom(call.tr, 1, "is_running")
       /\ (WatchCall("dead") /\ call.env.fault # 1 /\ is_running(call.pre))
          => call.result = "None" /\ call.changes = {"stopped"}
       /\ (WatchCall("running") /\ call.env.fault # 1)
          => /\ call.result = "None"
             /\ call.changes = {IF is_running(call.pre) THEN "restarted" ELSE "started"}
       /\ WatchCall("installed")
          => call.result = "None" /\ call.changes = {"recreated"} /\ call.tr = <<>>

C15_Witness ==
    /\ WatchCall("installed") /\ call.test /\ is_running(call.pre)
    /\ call.result = "None" /\ call.changes = {"recreated"} /\ call.tr = <<>>

(***************************************************************************)
(* SubID maps and the identity resolver (checked under OwnerSpec).         *)
(***************************************************************************)
\* fid lies in the range (child_start, parent_start, length)
Inside(range, fid) == range[1] <= fid /\ fid < range[1] + range[3]

\* fid lies outside every range of a non-empty map
Outside(submap, fid) ==
    submap # <<>> /\ \A i \in 1..Len(submap) : ~Inside(submap[i], fid)

\* the parent ID that a map defines for fid (fid itself for the empty map)
Translated(submap, fid) ==
    IF submap = <<>> THEN fid
    ELSE LET i == CHOOSE j \in 1..Len(submap) :
                     Inside(submap[j], fid) /\ \A h \in 1..(j - 1) : ~Inside(submap[h], fid)
         IN  submap[i][2] + fid - submap[i][1]

\* C16: SubID.find_parent_id returns parent_start + f - child_start for an ID
\* f inside a range of a non-empty map ([(0,100,10)]: 5 -> 105), raises an
\* invocation fault for an ID outside every range ([(0,100,10)]: 20), and
\* returns every ID unchanged for the empty map.
C16_FindParentId ==
    lookup.op = "find_parent_id"
    => /\ lookup.submap = <<>> => lookup.out = Value(lookup.fid)
       /\ (lookup.submap # <<>> /\ ~Outside(lookup.submap, lookup.fid))
          => /\ lookup.out.raised = ""
             /\ \E i \in 1..Len(lookup.submap) :
                   /\ Inside(lookup.submap[i], lookup.fid)
                   /\ lookup.out.value
                        = lookup.submap[i][2] + lookup.fid - lookup.submap[i][1]
       /\ Outside(lookup.submap, lookup.fid) => lookup.out.raised = "SaltInvocationError"
       /\ (lookup.submap = << <<0, 100, 10>> >> /\ lookup.fid = 5)
          => lookup.out = Value(105)
       /\ (lookup.submap = << <<0, 100, 10>> >> /\ lookup.fid = 20)
          => lookup.out.raised = "SaltInvocationError"

C16_Witness ==
    /\ lookup.op = "find_parent_id" /\ lookup.submap = << <<0, 100, 10>> >>
    /\ lookup.fid = 5 /\ lookup.out = Value(105)

\* a _resolve_owner call in which no collaborator call raised
OwnerCall == owner.op = "_resolve_owner" /\ owner.p.fault = 0

\* the remap is reconstructed from a pod unit with userns=keep-id for an account
\* with UID 1000 whose host map has 65536 subordinate IDs; only user is requested
KeepIdCase ==
    /\ OwnerCall /\ ~owner.p.live /\ owner.p.installed
    /\ Len(owner.p.pods) = 1 /\ owner.p.pods[1].keys = {"userns"}
    /\ owner.p.pods[1].userns = KeepIdText
    /\ owner.p.has_user /\ owner.p.account_known /\ owner.p.uid = 1000
    /\ owner.p.uid_map = RootlessUidMap
    /\ owner.kwargs.group.kind = "absent"

\* C17 as stated: for kept ID 1000 and a host subordinate range of size 65536
\* the synthesised map resolves internal ID 0 to the account's UID, internal ID
\* 1000 to host UID 0 and internal ID 1001 to host UID 1001.
C17_KeepIdHostIds ==
    KeepIdCase
    => /\ owner.kwargs.user = IntVal(0) => owner.user = IntVal(owner.p.uid)
       /\ owner.kwargs.user = IntVal(1000) => owner.user = IntVal(0)
       /\ owner.kwargs.user = IntVal(1001) => owner.user = IntVal(1001)

\* C17 amended: the synthesised map resolves internal ID 0 to namespace ID 1,
\* internal ID 1000 to namespace ID 0 and internal ID 1001 to namespace ID
\* 1001, which the host map (0 1000 1; 1 100000 65536) then places at the first
\* subordinate ID 100000, at the account's UID 1000 and at 101000.
C17_KeepIdNamespaceIds ==
    KeepIdCase
    => /\ owner.kwargs.user \in {IntVal(0), IntVal(1000), IntVal(1001)}
          => owner.status = "returned"
       /\ owner.kwargs.user = IntVal(0)
          => /\ owner.user = IntVal(Translated(from_str(owner.p.uid_map), 1))
             /\ owner.user = IntVal(100000)
       /\ owner.kwargs.user = IntVal(1000)
          => /\ owner.user = IntVal(Translated(from_str(owner.p.uid_map), 0))
             /\ owner.user = IntVal(owner.p.uid)
       /\ owner.kwargs.user = IntVal(1001)
          => /\ owner.user = IntVal(Translated(from_str(owner.p.uid_map), 1001))
             /\ owner.user = IntVal(101000)

C17_Witness ==
    /\ KeepIdCase /\ owner.kwargs.user = IntVal(1000)
    /\ owner.status = "returned" /\ owner.user = IntVal(1000)
    /\ owner.tr = <<"inspect", "list_installed_units", "inspect_unit", "project_info",
                    "user.info", "unshare", "unshare">>

\* a call that finds the container running: the container-internal maps are
\* those of HostConfig.IDMappings, the host maps what compose.unshare prints
LiveCall == OwnerCall /\ owner.p.live

LiveIntMap(ent) ==
    from_inspect(IF ~owner.p.has_idmappings THEN <<>>
                 ELSE IF ent = "user" THEN owner.p.idmap.UidMap
                 ELSE owner.p.idmap.GidMap)

LiveHostMap(ent) ==
    from_str(IF ent = "user" THEN owner.p.uid_map ELSE owner.p.gid_map)

\* the internal ID that the request names for ent ("root" is 0)
Wanted(ent) == IF owner.kwargs[ent].kind = "str" THEN 0 ELSE owner.kwargs[ent].n

\* ent is requested as an integer or as "root"
Numeric(ent) ==
    \/ owner.kwargs[ent].kind = "int"
    \/ owner.kwargs[ent] = StrVal(<<"r", "o", "o", "t">>)

\* a lookup of the two-stage translation of ent fails
LookupFails(ent) ==
    \/ Outside(LiveIntMap(ent), Wanted(ent))
    \/ Outside(LiveHostMap(ent), Translated(LiveIntMap(ent), Wanted(ent)))

\* the loop of lines 1689-1711 gets to the lookups of ent
Reaches(ent) ==
    /\ Numeric(ent)
    /\ ent = "group"
       => \/ owner.kwargs.user.kind = "absent"
          \/ Numeric("user") /\ ~LookupFails("user")

\* C18: when the wanted internal ID lies outside every range of a non-empty
\* container-internal map, or the namespace ID lies outside every range of a
\* non-empty host map, _resolve_owner raises an invocation fault and returns
\* nothing (the requested ID is never passed on unchanged).
C18_LookupFailureRaises ==
    \A ent \in {"user", "group"} :
       (LiveCall /\ Reaches(ent) /\ LookupFails(ent))
       => /\ owner.status = "raised" /\ owner.raised = "SaltInvocationError"
          /\ owner.user = Absent /\ owner.group = Absent

C18_Witness ==
    /\ LiveCall /\ ~owner.p.has_idmappings /\ owner.p.uid_map = SmallUidMap
    /\ owner.kwargs.user = IntVal(20) /\ owner.kwargs.group.kind = "absent"
    /\ owner.status = "raised" /\ owner.raised = "SaltInvocationError"
    /\ owner.tr = <<"inspect", "unshare">>

\* the call gets to the loop over user and group
LoopReached ==
    OwnerCall /\ (owner.p.live \/ (owner.p.installed /\ owner.p.has_user
                                   /\ owner.p.account_known))

\* C19: a user or group equal to "root" is translated as internal ID 0; any
\* other string (a string of digits too) raises an invocation fault before a
\* map is read for it; an integer is used as the internal ID as it is.
C19_OwnerLiterals ==
    /\ (LoopReached /\ owner.kwargs.user.kind = "str" /\ ~Numeric("user"))
       => /\ owner.status = "raised" /\ owner.raised = "SaltInvocationError"
          /\ owner.p.live => owner.tr = <<"inspect">>
    /\ (LoopReached /\ owner.kwargs.group.kind = "str" /\ ~Numeric("group")
        /\ owner.kwargs.user.kind = "absent")
       => /\ owner.status = "raised" /\ owner.raised = "SaltInvocationError"
          /\ owner.p.live => owner.tr = <<"inspect">>
    /\ \A ent \in {"user", "group"} :
          (LiveCall /\ Reaches(ent) /\ ~LookupFails(ent) /\ owner.status = "returned")
          => owner[ent] = IntVal(Translated(LiveHostMap(ent),
                                            Translated(LiveIntMap(ent),
                                               IF owner.kwargs[ent].kind = "int"
                                               THEN owner.kwargs[ent].n ELSE 0)))

C19_Witness ==
    /\ LiveCall /\ owner.p.has_idmappings
    /\ owner.p.idmap.UidMap = <<InspectEntry(0, 5, 5)>> /\ owner.p.uid_map = SmallUidMap
    /\ owner.kwargs.user = StrVal(<<"r", "o", "o", "t">>)
    /\ owner.kwargs.group.kind = "absent"
    /\ owner.status = "returned" /\ owner.user = IntVal(105)

\* C20: for each of user and group in the request, with internal ID w, the
\* value written back is host_map.find_parent_id(internal_map.find_parent_id(w)):
\* the container-internal map first and the host map second, the uid tables
\* for user and the gid tables for group.
C20_TwoStage ==
    (LiveCall /\ \A ent \in {"user", "group"} :
                    owner.kwargs[ent].kind # "absent" => Reaches(ent) /\ ~LookupFails(ent))
    => /\ owner.status = "returned"
       /\ \A ent \in {"user", "group"} :
             IF owner.kwargs[ent].kind = "absent" THEN owner[ent] = Absent
             ELSE owner[ent] = IntVal(Translated(LiveHostMap(ent),
                                                 Translated(LiveIntMap(ent), Wanted(ent))))

C20_Witness ==
    /\ LiveCall /\ owner.p.has_idmappings
    /\ owner.p.idmap.UidMap = <<InspectEntry(0, 5, 5)>>
    /\ owner.p.idmap.GidMap = <<InspectEntry(3, 7, 2), InspectEntry(0, 1, 3)>>
    /\ owner.p.uid_map = SmallUidMap /\ owner.p.gid_map = MapLine(0, 300, 10)
    /\ owner.kwargs.user = IntVal(2) /\ owner.kwargs.group = IntVal(3)
    /\ owner.status = "returned"
    /\ owner.user = IntVal(107) /\ owner.group = IntVal(307)
    /\ owner.tr = <<"inspect", "unshare", "unshare">>

(***************************************************************************)
(* lingering_managed, installed and the resolver in detail.                *)
(***************************************************************************)
\* C21: lingering_managed for an account that user.info does not report returns
\* result None (dry-run) or result False with the "does not exist" comment
\* (dry-run off), with no changes, and calls nothing after user.info: no
\* lingering probe, no Apply action, no marker poll.
C21_MissingUser ==
    (call.op = "lingering_managed" /\ ~call.pre.exists /\ call.env.fault = 0)
    => /\ call.status = "returned" /\ call.changes = {}
       /\ call.tr = <<"user.info">>
       /\ call.elapsed = Never
       /\ call.test => call.result = "None"
       /\ ~call.test => call.result = "False" /\ call.comment = "User does not exist."

C21_Witness ==
    /\ call.op = "lingering_managed" /\ ~call.pre.exists /\ ~call.test
    /\ call.pre.lingering # call.enable /\ call.result = "False"

\* lingering enable/disable was invoked and succeeded, and the session marker
\* never reaches the expected existence state
MarkerNeverFollows ==
    /\ call.op = "lingering_managed" /\ ~call.test /\ ~Pending /\ Unaided
    /\ call.env.fault = 0 /\ call.env.falsy = "none"
    /\ call.pre.exists /\ call.pre.lingering # call.enable
    /\ call.pre.marker # call.enable /\ call.env.settle = Never

\* C22: after a successful lingering enable/disable, if the marker never reaches
\* the expected state, the marker poll ends once the 10 s window has passed and
\* the call returns a failed outcome: the call always terminates.
C22_LingerBounded ==
    MarkerNeverFollows
    => /\ call.status = "returned" /\ call.result = "False"
       /\ call.elapsed >= Seconds(LingerWindow)
       /\ call.elapsed <= Seconds(LingerWindow) + LingerSleep

\* the Apply action and the post-check probe of the synchronous state functions
SyncPostCheck ==
    [installed |-> [apply |-> {"install", "install_units"}, probe |-> "list_missing_units"],
     removed |-> [apply |-> {"remove"}, probe |-> "list_installed_units"],
     enabled |-> [apply |-> {"enable"}, probe |-> "is_enabled"],
     disabled |-> [apply |-> {"disable"}, probe |-> "is_disabled"],
     systemd_service_enabled |-> [apply |-> {"systemctl_enable"},
                                 probe |-> "systemctl_is_enabled"],
     systemd_service_disabled |-> [apply |-> {"systemctl_disable"},
                                  probe |-> "systemctl_is_enabled"]]

\* what the post-check probe of the called function reports: target not reached
NotReached ==
    \/ call.op = "installed" /\ list_missing_units(call.post)
    \/ call.op = "removed" /\ list_installed_units(call.post)
    \/ call.op = "enabled" /\ ~is_enabled(call.post)
    \/ call.op = "disabled" /\ ~is_disabled(call.post)
    \/ call.op = "systemd_service_enabled" /\ ~systemctl_is_enabled(call.post)
    \/ call.op = "systemd_service_disabled" /\ systemctl_is_enabled(call.post)

\* the call ended with a truthy Apply followed by its post-check probe
PostChecked ==
    /\ call.op \in DOMAIN SyncPostCheck
    /\ Len(call.tr) >= 2
    /\ call.tr[Len(call.tr)] = SyncPostCheck[call.op].probe
    /\ call.tr[Len(call.tr) - 1] \in SyncPostCheck[call.op].apply
    /\ call.env.falsy # call.tr[Len(call.tr) - 1]
    /\ call.env.fault \notin {Len(call.tr) - 1, Len(call.tr)}

\* C23: in installed, removed, enabled, disabled and systemd_service_enabled /
\* disabled, when Apply returned truthy and the post-check probe shows that the
\* target is not reached, the call returns result False and raises nothing.
C23_PostCheckFails ==
    (PostChecked /\ NotReached)
    => call.status = "returned" /\ call.result = "False"

C23_Witness ==
    /\ PostChecked /\ NotReached /\ call.op = "installed"
    /\ call.tr[Len(call.tr) - 1] = "install" /\ call.result = "False"

\* the calls that compare the installed composition with its definitions
Comparisons == {"has_changes", "install_units(generate_only)", "file.file_exists", "file.read"}

\* C24: installed(update=False), force_recreate left at its default, on a
\* composition that list_installed_units reports installed returns result True
\* with no changes after that one probe: no Apply action and no comparison with
\* the definitions, whatever has_changes or the unit files would report. The
\* definitions are compared only when update is true or the composition is not
\* installed.
C24_NoUpdate ==
    /\ (/\ call.op = "installed" /\ ~call.update /\ ~call.force_recreate
        /\ list_installed_units(call.pre) /\ call.env.fault # 1)
       => /\ call.status = "returned" /\ call.result = "True" /\ call.changes = {}
          /\ call.tr = <<"list_installed_units">>
          /\ call.post = call.pre
    /\ (call.op = "installed" /\ \E c \in Comparisons : Called(call.tr, c))
       => call.update \/ ~list_installed_units(call.pre)

C24_Witness ==
    /\ call.op = "installed" /\ ~call.update /\ ~call.force_recreate /\ ~call.test
    /\ list_installed_units(call.pre) /\ has_changes(call.pre)
    /\ UnitTextDiffers(call.pre) /\ call.result = "True"

\* compose.inspect found no container and list_installed_units no units
NothingInstalled ==
    /\ OwnerCall /\ owner.p.fault = 0 /\ ~owner.p.live /\ ~owner.p.installed

\* keep-id mode, and compose.project_info names no account for the project
AccountUnknown ==
    /\ OwnerCall /\ owner.p.fault = 0 /\ ~owner.p.has_user
    /\ owner.tr # <<>> /\ owner.tr[Len(owner.tr)] = "project_info"

\* dict.update: the entries of fail_kwargs replace those of kwargs
Updated(ent) ==
    IF owner.fail_kwargs[ent] # Absent THEN owner.fail_kwargs[ent] ELSE owner.kwargs[ent]

\* C25: when compose.inspect finds no container and no units are installed, or
\* the project's account cannot be determined in keep-id mode, _resolve_owner
\* raises CommandExecutionError if fail_kwargs is None; otherwise it raises
\* nothing and returns the caller's kwargs updated with fail_kwargs (untranslated).
C25_FailKwargsFallback ==
    (NothingInstalled \/ AccountUnknown)
    => IF owner.fail_kwargs.none
       THEN owner.status = "raised" /\ owner.raised = "CommandExecutionError"
       ELSE /\ owner.status = "returned"
            /\ owner.user = Updated("user") /\ owner.group = Updated("group")

C25_Witness ==
    /\ AccountUnknown /\ ~owner.fail_kwargs.none /\ owner.status = "returned"
    /\ owner.kwargs.user = IntVal(1000) /\ owner.user = StrVal(<<"r", "o", "o", "t">>)
    /\ owner.kwargs.group = IntVal(100) /\ owner.group = IntVal(100)

\* C26: with dry-run off, when the composition is installed and both a content
\* difference and a unit text difference are found, installed() takes the full
\* recreate path: compose.install_units (without generate_only) is never
\* invoked, compose.install is (before the call returns), after compose.remove
\* (when the compose file is found) and compose.stop (when, besides, the
\* composition runs).
C26_ContentDiffWins ==
    (RecreateCase /\ UnitTextDiffers(call.pre))
    => /\ ~Called(call.tr, "install_units")
       /\ (call.env.fault = 0 /\ ~Pending)
          => /\ Called(call.tr, "install")
             /\ call.pre.file => Called(call.tr, "remove")
             /\ (call.pre.file /\ is_running(call.pre)) => Called(call.tr, "stop")

C26_Witness ==
    /\ RecreateCase /\ UnitTextDiffers(call.pre) /\ call.env.fault = 0
    /\ call.pre.unitFile = "differs"
    /\ Called(call.tr, "file.read") /\ Called(call.tr, "stop")
    /\ Called(call.tr, "remove") /\ Called(call.tr, "install")
    /\ call.result = "True" /\ call.changes = {"updated"}

\* installed(), update and force_recreate at their defaults and dry-run off,
\* finds the composition installed, no content difference and a unit text
\* difference
UnitsOnlyCase ==
    /\ call.op = "installed" /\ ~call.test /\ ~call.force_recreate /\ call.update
    /\ call.env.fault = 0
    /\ list_installed_units(call.pre) /\ ~has_changes(call.pre)
    /\ UnitTextDiffers(call.pre)

\* C27: on the units-only path installed() invokes compose.install_units with
\* now=False and neither compose.stop, compose.remove nor compose.install, and
\* it reports the change "updated".
C27_UnitsOnly ==
    UnitsOnlyCase
    => /\ Called(call.tr, "install_units") /\ call.units_now = "False"
       /\ \A a \in {"stop", "remove", "install"} : ~Called(call.tr, a)
       /\ call.status = "returned" /\ call.changes = {"updated"}

C27_Witness ==
    /\ UnitsOnlyCase /\ is_running(call.pre) /\ call.pre.unitFile = "differs"
    /\ call.result = "True" /\ call.changes = {"updated"}
    /\ call.tr[Len(call.tr) - 1] = "install_units"

\* the unit whose options the call is to read (none or one): the first pod if
\* there is one, else the first container whose name contains container_ref
UnitRead ==
    LET c == owner.p.containers
        ref == owner.container_ref
        M == {i \in 1..Len(c) :
                 \/ ref.none
                 \/ \E a \in 0..Len(c[i].name) : \E b \in a..Len(c[i].name) :
                       SubSeq(c[i].name, a + 1, b) = ref.s}
    IN  IF owner.p.pods # <<>> THEN <<owner.p.pods[1]>>
        ELSE IF M = {} THEN <<>>
        ELSE <<c[CHOOSE i \in M : \A j \in M : i <= j].options>>

\* the project with nothing but the source that is to be read
SourceAlone ==
    IF owner.p.live
    THEN [owner.p EXCEPT !.installed = FALSE, !.pods = <<>>, !.containers = <<>>]
    ELSE [owner.p EXCEPT !.pods = UnitRead, !.containers = <<>>]

SameAnswer(alone) ==
    /\ owner.status = alone.status /\ owner.raised = alone.raised
    /\ owner.user = alone.user /\ owner.group = alone.group

\* C28: when compose.inspect returns a record, no unit definition is read; else
\* with a pod unit only the first pod is read; else only the first container
\* whose name contains container_ref (the first container for None). The answer
\* is the one the call gives when that source is all there is.
C28_RemapSource ==
    (OwnerCall /\ (owner.p.live \/ owner.p.installed))
    => /\ owner.p.live
          => \A c \in {"list_installed_units", "inspect_unit"} : ~Called(owner.tr, c)
       /\ ~owner.p.live
          => Cardinality({i \in 1..Len(owner.tr) : owner.tr[i] = "inspect_unit"})
                = Len(UnitRead)
       /\ SameAnswer(_resolve_owner(SourceAlone, NoRef, owner.fail_kwargs, owner.kwargs))

C28_Witness ==
    /\ OwnerCall /\ ~owner.p.live /\ owner.p.pods = <<>>
    /\ Len(owner.p.containers) = 2
    /\ owner.p.containers[1].options = NoOptions
    /\ owner.p.containers[2].options.uidmap = <<InspectEntry(0, 5, 5)>>
    /\ owner.container_ref = [none |-> FALSE, s |-> <<"d", "b">>]
    /\ owner.kwargs.user = IntVal(0) /\ owner.p.uid_map = RootlessUidMap
    /\ owner.status = "returned" /\ owner.user = IntVal(100004)

\* userns options with sub-options, and the IDs they name (-1: not named)
SubOptionCases ==
    { [userns |-> KeepIdText \o <<":", "u", "i", "d", "=", "5", ",",
                                  "g", "i", "d", "=", "3">>, uid |-> 5, gid |-> 3],
      [userns |-> KeepIdText \o <<":", "g", "i", "d", "=", "3", ",",
                                  "u", "i", "d", "=", "5">>, uid |-> 5, gid |-> 3],
      [userns |-> KeepIdText \o <<":", "u", "i", "d", "=", "5">>, uid |-> 5, gid |-> -1],
      [userns |-> KeepIdText \o <<":", "g", "i", "d", "=", "3">>, uid |-> -1, gid |-> 3] }

\* the remap is reconstructed from a pod unit with the userns option of case c,
\* for an account whose host map has 65536 subordinate IDs
SubOptionCall(c) ==
    /\ OwnerCall /\ ~owner.p.live /\ owner.p.installed
    /\ Len(owner.p.pods) = 1 /\ owner.p.pods[1].keys = {"userns"}
    /\ owner.p.pods[1].userns = c.userns
    /\ owner.p.has_user /\ owner.p.account_known
    /\ owner.p.uid_map = RootlessUidMap

\* C29: for userns = keep-id:uid=U,gid=G (either or both, in any order) the kept
\* internal user ID is U and the kept group ID is G, the account's own uid or
\* gid standing in for a sub-option that is absent: the kept ID is the one that
\* lands on the host ID of namespace ID 0.
C29_KeepIdSubOptions ==
    \A c \in SubOptionCases :
       SubOptionCall(c)
       => /\ owner.kwargs.user = IntVal(IF c.uid = -1 THEN owner.p.uid ELSE c.uid)
             => /\ owner.status = "returned"
                /\ owner.user = IntVal(Translated(from_str(owner.p.uid_map), 0))
          /\ (/\ owner.kwargs.group = IntVal(IF c.gid = -1 THEN owner.p.gid ELSE c.gid)
              /\ owner.kwargs.user.kind = "absent")
             => /\ owner.status = "returned"
                /\ owner.group = IntVal(Translated(from_str(owner.p.gid_map), 0))

\* the apply action that mod_watch selects for a watched state function
SelectedApply ==
    [dead |-> {"stop"}, running |-> {"start", "restart"}, installed |-> {"install"}]

\* C30: in mod_watch with dry-run off, when the selected apply action returns a
\* falsy value, the outcome is result False with no changes; result True with a
\* recorded change never follows a falsy Apply.
C30_WatchFalsyApply ==
    (/\ call.op = "mod_watch" /\ ~call.test /\ call.sfun \in DOMAIN SelectedApply
     /\ call.env.falsy \in SelectedApply[call.sfun] /\ ~Pending
     /\ \E i \in 1..Len(call.tr) : FalsyApplyAt(i))
    => call.status = "returned" /\ call.result = "False" /\ call.changes = {}

(***************************************************************************)
(* Outcomes and call sequences of whole calls.                             *)
(***************************************************************************)
\* C32: whenever installed, removed, enabled or disabled returns result False
\* because the post-check found the target not reached, the returned changes
\* are empty.
C32_PostCheckClearsChanges ==
    (/\ call.op \in {"installed", "removed", "enabled", "disabled"}
     /\ PostChecked /\ NotReached /\ call.result = "False")
    => call.changes = {}

\* C33: on the recreate path of installed(), compose.remove (and the install
\* after it) is invoked only when the dead() step before it converged, that is
\* when the composition is no longer running.
C33_TeardownVerified ==
    (RecreateCase /\ Called(call.tr, "stop"))
    => \A a \in {"remove", "install"} : Called(call.tr, a) => ~is_running(call.post)

\* C34: with dry-run off and force_recreate false, whenever list_installed_units
\* reports the composition not installed, installed() invokes compose.install
\* before it returns result True.
C34_NotInstalledIsInstalled ==
    (/\ call.op = "installed" /\ ~call.test /\ ~call.force_recreate
     /\ ~list_installed_units(call.pre)
     /\ call.status = "returned" /\ call.result = "True")
    => Called(call.tr, "install")

\* C36: in mod_watch(sfun="installed") with dry-run off, compose.install is
\* invoked only when the composition is not running at that moment (install is
\* the last collaborator call, so that moment is the return).
C36_WatchInstallAfterStop ==
    (WatchCall("installed") /\ ~call.test /\ Called(call.tr, "install"))
    => ~is_running(call.post)

\* the Apply action of a polling function was invoked and returned truthy, and
\* nothing raised
Applied ==
    /\ call.op \in Polling /\ ~call.test /\ call.elapsed # Never
    /\ call.env.fault = 0 /\ call.env.falsy = "none"

\* time from start_time to the end of verify poll number j (from 0)
PollEnd(j) == (j + 1) * call.env.dur + j * PollSleep

\* the verify probe answers true at a poll that is taken: no earlier poll ended
\* later than timeout
Converges ==
    /\ call.env.settle # Never /\ ~Pending
    /\ \A j \in 0..(call.env.settle - 1) : PollEnd(j) <= Seconds(call.timeout)

\* the collaborator call that is the Apply action of the call
ApplyAt == CHOOSE i \in 1..Len(call.tr) : call.tr[i] \in AsyncApply

\* C37: in running, dead, systemd_service_running, systemd_service_dead and
\* mod_watch, when Apply returned truthy and the verify probe answers true at a
\* poll that is taken (the first one included), the call returns result True
\* with the change recorded, and that poll is the last thing it does: no further
\* probe, sleep or Apply.  (The poll is the one at which the effect of Apply
\* shows, or an earlier one when another caller has brought the target about.)
C37_ConvergenceIsSuccess ==
    (Applied /\ Converges)
    => /\ call.status = "returned" /\ call.result = "True" /\ call.changes # {}
       /\ Len(call.tr) <= ApplyAt + call.env.settle + 1
       /\ \A i \in (ApplyAt + 1)..Len(call.tr) : call.tr[i] \notin Apply
       /\ call.elapsed <= PollEnd(call.env.settle)
       /\ Unaided => /\ Len(call.tr) = ApplyAt + call.env.settle + 1
                     /\ call.elapsed = PollEnd(call.env.settle)

C37_Witness ==
    /\ Applied /\ Converges /\ call.op = "running"
    /\ call.env.settle = 1 /\ call.timeout = 0 /\ call.env.dur = 0
    /\ call.tr = <<"is_running", "start", "is_running", "is_running">>
    /\ call.result = "True" /\ call.changes = {"started"} /\ call.elapsed = PollSleep

\* how many times the call invoked collaborator a
Times(a) == Cardinality({i \in 1..Len(call.tr) : call.tr[i] = a})

\* C39: in a single call of a lifecycle state function or of mod_watch each
\* Apply action is invoked at most once, and once a verify loop has been entered
\* no Apply action follows the one whose effect is polled: the loop only repeats
\* the probe.
C39_ApplyAtMostOnce ==
    /\ \A a \in Apply : Times(a) <= 1
    /\ (call.op \in Polling /\ call.elapsed # Never)
       => \A i \in 1..Len(call.tr) : \A j \in (i + 1)..Len(call.tr) :
             call.tr[i] \in AsyncApply => call.tr[j] \notin Apply

C39_Witness ==
    /\ call.op = "dead" /\ ~call.test /\ call.timeout = 1
    /\ call.env.settle = Never /\ call.env.fault = 0 /\ call.env.dur = 0
    /\ Times("stop") = 1 /\ Times("is_dead") = 6
    /\ call.result = "False"

\* That success of dead() / disabled() implies is_dead / is_disabled at return
\* is not stated: on the already-satisfied return dead() and disabled() have
\* consulted is_running / is_enabled only, and whether is_dead / is_disabled
\* would agree is decided in the execution module, not in this module.

\* find_parent_id is applied to the map synthesised for kept ID k and host map
\* size s
KeptLookup(k, s) ==
    lookup.op = "find_parent_id" /\ lookup.submap = from_inspect(KeepIdMap(k, s))

\* the IDs of a range in child space (at = 1) or in parent space (at = 2)
RangeIds(range, at) == {n \in 0..(MaxHostSize + 2) : InRange(n, range[at], range[at] + range[3])}

\* C35: for kept ID k and host map size s with 0 <= k <= s, the three ranges
\* (0,1,k), (k,0,1), (k+1,k+1,s-k) are pairwise disjoint in child space and in
\* parent space, and find_parent_id maps the internal IDs 0..s one-to-one onto
\* the namespace IDs 0..s: no ID of 0..s is left unmapped.
C35_KeepIdBijection ==
    \A s \in 0..MaxHostSize : \A k \in 0..s :
       KeptLookup(k, s)
       => LET m == lookup.submap
              ns(i) == find_parent_id(m, i)
          IN  /\ m = << <<0, 1, k>>, <<k, 0, 1>>, <<k + 1, k + 1, s - k>> >>
              /\ \A a \in 1..3 : \A b \in 1..3 : \A at \in 1..2 :
                    a # b => RangeIds(m[a], at) \cap RangeIds(m[b], at) = {}
              /\ \A i \in 0..s : ns(i).raised = "" /\ ns(i).value \in 0..s
              /\ \A i \in 0..s : \A j \in 0..s : ns(i).value = ns(j).value => i = j
              /\ \A n \in 0..s : \E i \in 0..s : ns(i).value = n
              /\ lookup.fid \in 0..s => lookup.out = ns(lookup.fid)

C35_Witness ==
    /\ KeptLookup(2, 4) /\ lookup.fid = 4 /\ lookup.out = Value(4)
    /\ find_parent_id(lookup.submap, 0) = Value(1)
    /\ find_parent_id(lookup.submap, 2) = Value(0)

(***************************************************************************)
(* Independent callers of running().                                       *)
(***************************************************************************)
\* C31: nothing coordinates concurrent callers: a caller whose is_running probe
\* showed the target unsatisfied invokes compose.start whatever any other
\* caller has done since (its Apply step is never blocked), so that two callers
\* can both start one composition that is not running.
C31_NoCoordination ==
    \A c \in Callers : callers[c].pc = "apply" => ENABLED RunningStart(c)

C31_Witness ==
    /\ ~is_running(world)
    /\ \A c \in Callers :
          /\ callers[c].unsatisfied /\ callers[c].started = 1
          /\ callers[c].pc = "verify"

====
